---- MODULE Spec2Model ----
(***************************************************************************)
(* Progress bookkeeping and run control of the TopCinema scraper.          *)
(*                                                                         *)
(* Three revisions of the scraper are modelled over one database state:    *)
(*   rev = "cli"   src/02_scraper_with_db.py  (sequential command line)    *)
(*   rev = "note"  src/app-deep-note.py       (sequential, stop flag)      *)
(*   rev = "app"   src/app.py                 (fetcher pool, data queue,   *)
(*                                             one writer thread)          *)
(* A resolution (run_single) is abstracted to its outcome: no data, or a   *)
(* tree with one part per season (one part, the server list, for a movie); *)
(* each part records which branch of the resolver produced it.             *)
(***************************************************************************)
EXTENDS Integers, Sequences, FiniteSets, TLC

\* ----------------------------------------------------------------- bounds
NUrls == 3
NSeasons == 2
MaxRuns == 2
NAnchors == 3
MaxCalls == 3
NThreads == 2
NPages == 2
NProbes == 4
NLinks == 3
NLinkUrls == 2
MaxTitle == 4
MaxText == 1
MaxWords == 3
\* Server links of one resolution, distinct links, row ids a connection may hold.
MaxServers == 2
MaxEmbeds == 2
MaxRowId == 2
\* URLs read per batch (MAX_WORKERS * 2 in the code), submissions counted per URL.
BatchLimit == 2
MaxSubmits == 2
\* Listing pages of one season, visits counted per page.
NListing == 3
MaxVisits == 2

URLS == 1..NUrls

\* The scrape type a URL counts under: which of the words movie / series /
\* anime the URL contains (the input lists hold distinct absolute URLs).
Kind(u) == IF u = 1 THEN "movies" ELSE IF u <= 3 THEN "series" ELSE "anime"

\* The title found on the show page of a URL; URLs 2 and 3 carry the same
\* title (the site lists different shows under one title).
Title(u) == IF u = 3 THEN 2 ELSE u

\* src/02_scraper_with_db.py:841 and src/app-deep-note.py:54: the two input
\* files, series/anime first, then movies.
JsonFiles == <<"series_animes", "movies">>
FileUrls(f) == IF f = "movies" THEN {u \in URLS : Kind(u) = "movies"}
                               ELSE {u \in URLS : Kind(u) # "movies"}

\* Number of parts of the tree of a URL.
Parts(u) == IF Kind(u) = "movies" THEN 1 ELSE NSeasons

\* ------------------------------------------------------------ the database
VARIABLES
    rev,        \* which revision of the program runs
    progress,   \* scrape_progress: url -> row (NoRec when there is none)
    shows,      \* shows: sequence of rows, the index is the AUTOINCREMENT id
    trees,      \* persisted tree of each show id
    runs,       \* number of runs started so far
    running,    \* GLOBAL_STATE["scraper_running"] / the script is running
    stop,       \* STOP_EVENT / GLOBAL_STATE["stop_scraper"]
    stopped,    \* history: a stop request was accepted during the current run
    worklist,   \* the pending URLs handed to the current run (or file)
    marks,      \* history: mark_progress calls per URL in the current run
    pc,         \* sequential revisions: position of the main loop
    fileIdx,    \* sequential revisions: index of the input file in work
    work,       \* sequential revisions: URLs of the file still to do
    cur,        \* sequential revisions: the URL in work and its result
    ctype,      \* GLOBAL_STATE["current_scrape_type"]
    chain,      \* GLOBAL_STATE["scrape_queue"]
    req,        \* request threads inside api_start: the type asked for
    ctl,        \* control threads (start_scraper_thread): position
    tosubmit,   \* control threads: URLs not yet submitted to the pool
    fpc,        \* fetcher tasks of each control thread: position per URL
    fres,       \* fetcher tasks: what run_single returned
    queue,      \* DATA_QUEUE
    wpc,        \* the writer thread started by each control thread
    wmarks,     \* history: mark_progress calls per enqueued item
    enq,        \* history: URLs whose item the fetchers of a run enqueued
    atstop,     \* history: URLs whose item was queued when a stop was accepted
    nwriters,   \* number of live writer threads
    dbcall,     \* Database interface exercised alone: the last call
    seen,       \* scrape_season_episodes: the shared set of episode keys
    epc,        \* scrape_season_episodes: position of each process_episode
    eres,       \* scrape_season_episodes: what each process_episode returned
    elist,      \* scrape_season_episodes: episodes, in the order appended
    pages,      \* input: number of pages the season's episode listing spans
    atext,      \* input: the number text of each anchor of the listing
    hits,       \* input: the probe indices whose response holds an iframe
    ppc,        \* get_episode_servers: position of each fetch_one
    servers,    \* get_episode_servers: servers, in the order appended
    slinks,     \* input: the season links of a show page
    sseasons,   \* scrape_series: the seasons list
    fn,         \* a function applied alone: its name, argument and result
    utype       \* input: the scrape type the text of each URL is counted under

dbvars  == <<progress, shows, trees>>
seqvars == <<pc, fileIdx, work, cur>>
epvars == <<seen, epc, eres, elist, pages, atext, hits, ppc, servers,
            slinks, sseasons>>
appvars == <<ctype, chain, req, ctl, tosubmit, fpc, fres, queue, wpc, wmarks,
             enq, atstop, nwriters, dbcall, epvars>>
vars == <<rev, progress, shows, trees, runs, running, stop, stopped,
          worklist, marks, pc, fileIdx, work, cur,
          ctype, chain, req, ctl, tosubmit, fpc, fres, queue, wpc, wmarks,
          enq, atstop, nwriters, dbcall, seen, epc, eres, elist, pages, atext,
          hits, ppc, servers, slinks, sseasons, fn, utype>>

NoRec == [status |-> "absent", show_id |-> 0, error |-> "null"]
PendingRec == [status |-> "pending", show_id |-> 0, error |-> "null"]
Rec(st, sid, err) == [status |-> st, show_id |-> sid, error |-> err]

NoResult == [ok |-> FALSE, tree |-> <<>>, error |-> "null"]
NoCur == [url |-> 0, res |-> NoResult, show_id |-> 0]

\* Ascending sequence of a set of URLs (the order of the input list).
RECURSIVE SetToSeq(_)
SetToSeq(S) == IF S = {} THEN <<>>
               ELSE LET m == CHOOSE x \in S : \A y \in S : x <= y
                    IN <<m>> \o SetToSeq(S \ {m})

\* A part of a tree: "full" (all episodes or servers resolved), "failed" (the
\* page could not be fetched: no episodes), "noservers" (episodes, none of
\* them with a server), "stopped" (the stop branch returned nothing),
\* "partial" (the stop branch kept what was resolved).
HasEpisodes(p) == p \in {"full", "partial", "noservers"}
HasServers(p) == p \in {"full", "partial"}
CutByStop(p) == p \in {"stopped", "partial"}
TreeCut(t) == \E i \in 1..Len(t) : CutByStop(t[i])

\* INSERT OR IGNORE of a part over a persisted part keeps the rows there are.
PartRank(p) == IF p = "full" THEN 2 ELSE IF p \in {"partial", "noservers"} THEN 1 ELSE 0
MergePart(old, new) == IF PartRank(new) > PartRank(old) THEN new ELSE old
MergeTree(old, new) ==
    IF old = <<>> THEN new
    ELSE [i \in 1..Len(new) |-> MergePart(old[i], new[i])]

\* id of the stored show of a source URL, 0 when there is none
ShowIdByUrl(sh, u) ==
    IF \E i \in 1..Len(sh) : sh[i].source_url = u
    THEN CHOOSE i \in 1..Len(sh) : sh[i].source_url = u
    ELSE 0
ShowRow(u) == [source_url |-> u, title |-> Title(u)]

\* Database.insert_show of src/02_scraper_with_db.py: title and slug are
\* UNIQUE (src/01_init_database.py), an IntegrityError returns None (0).
CliInsertShow(sh, u) ==
    IF \E i \in 1..Len(sh) : sh[i].title = Title(u)
    THEN [shows |-> sh, id |-> 0]
    ELSE [shows |-> Append(sh, ShowRow(u)), id |-> Len(sh) + 1]

\* Database.mark_progress of src/02_scraper_with_db.py and
\* src/app-deep-note.py: INSERT OR REPLACE.
CliMarkProgressKeepsFirst(p, u, st, sid, err) ==
    IF p[u] = NoRec THEN [p EXCEPT ![u] = Rec(st, sid, err)] ELSE p
CliMarkProgress(p, u, st, sid, err) == [p EXCEPT ![u] = Rec(st, sid, err)]

\* Database.get_pending_urls of src/02_scraper_with_db.py: the URLs of the
\* file that are not marked completed.
CliGetPendingAll(p, urls) == urls
CliGetPending(p, urls) == {u \in urls : p[u].status # "completed"}

\* Database.init_progress: INSERT OR IGNORE ... 'pending'.
InitProgressReplace(p, urls) ==
    [u \in URLS |-> IF u \in urls THEN PendingRec ELSE p[u]]
InitProgress(p, urls) ==
    [u \in URLS |-> IF u \in urls /\ p[u] = NoRec THEN PendingRec ELSE p[u]]

\* Database.insert_seasons_and_episodes / insert_movie_servers.
InsertTree(tr, sid, t) == [tr EXCEPT ![sid] = MergeTree(tr[sid], t)]

\* insert_movie_servers: the rows of the seasons table (and, one each, of
\* the episodes table) it writes for a movie.  src/02_scraper_with_db.py and
\* src/app-deep-note.py insert a season 1 and an episode 1 to hang the
\* servers on; src/app.py writes the servers with parent_type 'movie'.
MovieSeasonRows(r) == IF r = "app" THEN 0 ELSE 1

\* The rows of the seasons table of a stored show: one per season of the
\* persisted tree of a series or anime.
SeasonRows(r, u, t) ==
    IF t = <<>> THEN 0
    ELSE IF Kind(u) = "movies" THEN MovieSeasonRows(r)
    ELSE Len(t)

\* The trees run_single can return for a URL when no stop is requested.
PartKinds(u) == IF Kind(u) = "movies" THEN {"full", "failed"}
                ELSE {"full", "failed", "noservers"}
TreesOf(u) == [1..Parts(u) -> PartKinds(u)]

Bump(m, u) == [m EXCEPT ![u] = IF @ < 3 THEN @ + 1 ELSE @]
ZeroMarks == [u \in URLS |-> 0]
NoTrees == [i \in 1..NUrls |-> <<>>]

\* ------------------------------------------- src/02_scraper_with_db.py main
\* The script is started (python 02_scraper_with_db.py).
CliStart ==
    /\ rev = "cli" /\ ~running /\ runs < MaxRuns
    /\ running' = TRUE /\ runs' = runs + 1
    /\ pc' = "file" /\ fileIdx' = 1 /\ work' = <<>> /\ cur' = NoCur
    /\ worklist' = {} /\ marks' = ZeroMarks /\ stopped' = FALSE
    /\ UNCHANGED <<rev, fn, utype, appvars, dbvars, stop>>

\* for json_file in json_files: get_pending_urls, init_progress.
CliNextFile ==
    /\ rev = "cli" /\ running /\ pc = "file"
    /\ IF fileIdx > Len(JsonFiles)
       THEN /\ running' = FALSE /\ pc' = "idle"
            /\ UNCHANGED <<progress, work, worklist, fileIdx, marks>>
       ELSE LET urls == CliGetPending(progress, FileUrls(JsonFiles[fileIdx]))
            IN /\ progress' = InitProgress(progress, urls)
               /\ work' = SetToSeq(urls)
               /\ worklist' = urls
               /\ marks' = ZeroMarks
               /\ fileIdx' = fileIdx + 1
               /\ pc' = IF urls = {} THEN "file" ELSE "scrape"
               /\ UNCHANGED running
    /\ UNCHANGED <<rev, fn, utype, appvars, shows, trees, runs, stop, stopped, cur>>

\* One URL of the loop is done: the next one, or the next file.
SeqAdvance == /\ work' = Tail(work)
              /\ cur' = NoCur
              /\ pc' = IF Len(work) > 1 THEN "scrape" ELSE "file"

\* run_single returned no data, or raised: the URL is marked failed.
CliScrapeFail ==
    /\ rev = "cli" /\ running /\ pc = "scrape"
    /\ \E err \in {"Scraping returned no data", "exception"} :
         progress' = CliMarkProgress(progress, Head(work), "failed", 0, err)
    /\ marks' = Bump(marks, Head(work))
    /\ SeqAdvance
    /\ UNCHANGED <<rev, fn, utype, appvars, shows, trees, runs, running, stop, stopped, worklist, fileIdx>>

\* run_single returned a result.
CliScrapeOk ==
    /\ rev = "cli" /\ running /\ pc = "scrape"
    /\ \E t \in TreesOf(Head(work)) :
         cur' = [url |-> Head(work),
                 res |-> [ok |-> TRUE, tree |-> t, error |-> "null"],
                 show_id |-> 0]
    /\ pc' = "insert_show"
    /\ UNCHANGED <<rev, fn, utype, appvars, dbvars, runs, running, stop, stopped, worklist, marks, fileIdx, work>>

\* show_id = db.insert_show(result); None marks the URL failed.
CliInsertShowStep ==
    /\ rev = "cli" /\ running /\ pc = "insert_show"
    /\ LET r == CliInsertShow(shows, cur.url)
       IN IF r.id = 0
          THEN /\ progress' = CliMarkProgress(progress, cur.url, "failed", 0, "Duplicate show")
               /\ marks' = Bump(marks, cur.url)
               /\ SeqAdvance
               /\ UNCHANGED shows
          ELSE /\ shows' = r.shows
               /\ cur' = [cur EXCEPT !.show_id = r.id]
               /\ pc' = "tree"
               /\ UNCHANGED <<progress, marks, work>>
    /\ UNCHANGED <<rev, fn, utype, appvars, trees, runs, running, stop, stopped, worklist, fileIdx>>

\* db.insert_seasons_and_episodes / insert_movie_servers (its own commit).
CliInsertTreeStep ==
    /\ rev = "cli" /\ running /\ pc = "tree"
    /\ trees' = InsertTree(trees, cur.show_id, cur.res.tree)
    /\ pc' = "mark"
    /\ UNCHANGED <<rev, fn, utype, appvars, progress, shows, runs, running, stop, stopped, worklist,
                   marks, fileIdx, work, cur>>

\* The tree insert raised (sqlite3.OperationalError): except -> failed.
CliInsertTreeRaises ==
    /\ rev = "cli" /\ running /\ pc = "tree"
    /\ progress' = CliMarkProgress(progress, cur.url, "failed", 0, "exception")
    /\ marks' = Bump(marks, cur.url)
    /\ SeqAdvance
    /\ UNCHANGED <<rev, fn, utype, appvars, shows, trees, runs, running, stop, stopped, worklist, fileIdx>>

\* db.mark_progress(url, "completed", show_id).
CliMarkCompleted ==
    /\ rev = "cli" /\ running /\ pc = "mark"
    /\ progress' = CliMarkProgress(progress, cur.url, "completed", cur.show_id, "null")
    /\ marks' = Bump(marks, cur.url)
    /\ SeqAdvance
    /\ UNCHANGED <<rev, fn, utype, appvars, shows, trees, runs, running, stop, stopped, worklist, fileIdx>>

\* The process is interrupted (Ctrl-C, kill) between two commits: every
\* database call of this revision commits on its own connection.
CliInterrupt ==
    /\ rev = "cli" /\ running
    /\ running' = FALSE /\ stopped' = TRUE
    /\ pc' = "idle" /\ work' = <<>> /\ cur' = NoCur
    /\ UNCHANGED <<rev, fn, utype, appvars, dbvars, runs, stop, worklist, marks, fileIdx>>

NextCli == \/ CliStart \/ CliNextFile \/ CliScrapeFail \/ CliScrapeOk
           \/ CliInsertShowStep \/ CliInsertTreeStep \/ CliInsertTreeRaises
           \/ CliMarkCompleted \/ CliInterrupt

\* ------------------------------------- src/app-deep-note.py run_scraper_task
\* Database.insert_show of src/app-deep-note.py: as the command line's, and
\* title and slug are UNIQUE there too.
NoteInsertShow(sh, u) == CliInsertShow(sh, u)

\* Database.get_pending_urls of src/app-deep-note.py, for one file.
NoteGetPending(p, urls) == {u \in urls : p[u].status # "completed"}

\* POST /api/start.
NoteApiStart ==
    /\ rev = "note" /\ ~running /\ runs < MaxRuns
    /\ running' = TRUE /\ stop' = FALSE /\ stopped' = FALSE
    /\ runs' = runs + 1
    /\ pc' = "begin" /\ fileIdx' = 1 /\ work' = <<>> /\ cur' = NoCur
    /\ worklist' = {} /\ marks' = ZeroMarks
    /\ UNCHANGED <<rev, fn, utype, appvars, dbvars>>

\* POST /api/stop.
NoteApiStop ==
    /\ rev = "note" /\ running
    /\ stop' = TRUE /\ stopped' = TRUE
    /\ UNCHANGED <<rev, fn, utype, appvars, dbvars, runs, running, worklist, marks, seqvars>>

\* run_scraper_task: the pending map of all files is computed once, then
\* every URL of the files gets its progress row.
NoteBegin ==
    /\ rev = "note" /\ running /\ pc = "begin"
    /\ worklist' = UNION {NoteGetPending(progress, FileUrls(JsonFiles[i])) :
                          i \in 1..Len(JsonFiles)}
    /\ progress' = InitProgress(progress, URLS)
    /\ pc' = "file"
    /\ UNCHANGED <<rev, fn, utype, appvars, shows, trees, runs, running, stop, stopped, marks,
                   fileIdx, work, cur>>

\* for json_file, urls in pending_urls_map.items(); the finally block ends
\* the run.
NoteNextFile ==
    /\ rev = "note" /\ running /\ pc = "file"
    /\ IF stop \/ fileIdx > Len(JsonFiles)
       THEN /\ running' = FALSE /\ stop' = FALSE /\ pc' = "idle"
            /\ work' = <<>>
            /\ UNCHANGED fileIdx
       ELSE LET urls == worklist \cap FileUrls(JsonFiles[fileIdx])
            IN /\ work' = SetToSeq(urls)
               /\ fileIdx' = fileIdx + 1
               /\ pc' = IF urls = {} THEN "file" ELSE "scrape"
               /\ UNCHANGED <<running, stop>>
    /\ UNCHANGED <<rev, fn, utype, appvars, dbvars, runs, stopped, worklist, marks, cur>>

\* for idx, url in enumerate(urls, 1): if stop_scraper: break.
NoteNextUrl ==
    /\ rev = "note" /\ running /\ pc = "scrape"
    /\ IF stop
       THEN pc' = "file" /\ UNCHANGED cur
       ELSE /\ pc' = "single"
            /\ cur' = [url |-> Head(work), res |-> NoResult, show_id |-> 0]
    /\ UNCHANGED <<rev, fn, utype, appvars, dbvars, runs, running, stop, stopped, worklist, marks,
                   fileIdx, work>>

\* run_single up to the show page: the stop checks of run_single, of
\* scrape_series / scrape_movie and of fetch_html return None, as does a
\* failed fetch; None (or an exception) marks the URL failed.
NoteRunSingle ==
    /\ rev = "note" /\ running /\ pc = "single"
    /\ \E fetched \in BOOLEAN, raised \in BOOLEAN :
         IF stop \/ ~fetched \/ raised
         THEN /\ progress' = CliMarkProgress(progress, cur.url, "failed", 0,
                     IF raised /\ ~stop THEN "exception"
                                        ELSE "Scraping returned no data")
              /\ marks' = Bump(marks, cur.url)
              /\ SeqAdvance
         ELSE /\ pc' = "part"
              /\ cur' = [cur EXCEPT !.res = [ok |-> TRUE, tree |-> <<>>, error |-> "null"]]
              /\ UNCHANGED <<progress, marks, work>>
    /\ UNCHANGED <<rev, fn, utype, appvars, shows, trees, runs, running, stop, stopped, worklist, fileIdx>>

\* The outcomes of one part of a resolution: scrape_series' season loop
\* breaks on stop, scrape_season_episodes and get_episode_servers return []
\* or what was collected so far on stop; a failed fetch gives no episodes.
PartOutcomes(s) == IF s THEN {"stopped", "partial"} ELSE {"full", "failed", "noservers"}

\* One season of scrape_series (the server probe of scrape_movie).
NotePart ==
    /\ rev = "note" /\ running /\ pc = "part"
    /\ \E o \in PartOutcomes(stop) :
         cur' = [cur EXCEPT !.res.tree = Append(@, o)]
    /\ pc' = IF Len(cur.res.tree) + 1 = Parts(cur.url) THEN "insert_show" ELSE "part"
    /\ UNCHANGED <<rev, fn, utype, appvars, dbvars, runs, running, stop, stopped, worklist, marks,
                   fileIdx, work>>

\* show_id = db.insert_show(result).
NoteInsertShowStep ==
    /\ rev = "note" /\ running /\ pc = "insert_show"
    /\ LET r == NoteInsertShow(shows, cur.url)
       IN IF r.id = 0
          THEN /\ progress' = CliMarkProgress(progress, cur.url, "failed", 0,
                                              "Duplicate or DB error")
               /\ marks' = Bump(marks, cur.url)
               /\ SeqAdvance
               /\ UNCHANGED shows
          ELSE /\ shows' = r.shows
               /\ cur' = [cur EXCEPT !.show_id = r.id]
               /\ pc' = "tree"
               /\ UNCHANGED <<progress, marks, work>>
    /\ UNCHANGED <<rev, fn, utype, appvars, trees, runs, running, stop, stopped, worklist, fileIdx>>

\* db.insert_seasons_and_episodes / insert_movie_servers, then
\* db.mark_progress(url, "completed", show_id): no stop check in between.
NoteMarkCompleted ==
    /\ rev = "note" /\ running /\ pc = "tree"
    /\ trees' = InsertTree(trees, cur.show_id, cur.res.tree)
    /\ progress' = CliMarkProgress(progress, cur.url, "completed", cur.show_id, "null")
    /\ marks' = Bump(marks, cur.url)
    /\ SeqAdvance
    /\ UNCHANGED <<rev, fn, utype, appvars, shows, runs, running, stop, stopped, worklist, fileIdx>>

NextNote == \/ NoteApiStart \/ NoteApiStop \/ NoteBegin \/ NoteNextFile
            \/ NoteNextUrl \/ NoteRunSingle \/ NotePart
            \/ NoteInsertShowStep \/ NoteMarkCompleted

\* ------------------------------------------------------ src/app.py pipeline
T == 1..NThreads

NoneItem == [url |-> 0, ok |-> FALSE, tree |-> <<>>, error |-> "null", by |-> 0]
Item(u, r, c) == [url |-> u, ok |-> r.ok, tree |-> r.tree, error |-> r.error, by |-> c]
Failure(e) == [ok |-> FALSE, tree |-> <<>>, error |-> e]
Success(t) == [ok |-> TRUE, tree |-> t, error |-> "null"]

\* An auto-chain queue that holds the next type only.
ChainOfNext(t) == IF t = "movies" THEN <<"series">>
                  ELSE IF t = "series" THEN <<"anime">>
                  ELSE <<"movies">>

\* api_start: the auto-chain queue of a scrape type.
ChainOf(t) == IF t = "movies" THEN <<"series", "anime">>
              ELSE IF t = "series" THEN <<"anime", "movies">>
              ELSE <<"movies", "series">>

\* Database.insert_show of src/app.py: source_url is UNIQUE, an
\* IntegrityError returns the id of the stored row.
AppInsertShow(sh, u) ==
    IF ShowIdByUrl(sh, u) # 0
    THEN [shows |-> sh, id |-> ShowIdByUrl(sh, u)]
    ELSE [shows |-> Append(sh, ShowRow(u)), id |-> Len(sh) + 1]

\* Database.mark_progress of src/app.py: UPDATE ... WHERE url = ?.
AppMarkProgress(p, u, st, sid, err) ==
    IF p[u] = NoRec THEN p ELSE [p EXCEPT ![u] = Rec(st, sid, err)]

\* Database.populate_and_get_pending_urls, first half: INSERT OR IGNORE of
\* every URL of the JSON files.
Populate(p) == InitProgress(p, URLS)

\* Database.populate_and_get_pending_urls, second half: the rows whose status
\* is 'pending', filtered by the type the URL counts under.
AppGetPending(p, t) == {u \in URLS : p[u].status = "pending" /\ utype[u] = t}

\* run_single of src/app.py on a resolved tree: the redflag filter discards
\* a series or anime without seasons, without any episode, or without any
\* server.
RunSingleResult(u, t) ==
    IF Kind(u) = "movies" THEN Success(t)
    ELSE IF t = <<>> THEN Failure("Redflag: No seasons found.")
    ELSE IF ~\E i \in 1..Len(t) : HasEpisodes(t[i])
    THEN Failure("Redflag: No episodes found in any season.")
    ELSE IF ~\E i \in 1..Len(t) : HasServers(t[i])
    THEN Failure("Redflag: No servers found for any episode.")
    ELSE Success(t)

\* The trees a resolution returns when the stop event is set while it runs:
\* the parts resolved before, the part cut, nothing for the parts after.
CutTreesOf(u) ==
    {t \in [1..Parts(u) -> PartKinds(u) \cup {"partial", "stopped"}] :
       \E k \in 1..Parts(u) :
          /\ \A i \in 1..(k - 1) : t[i] \in PartKinds(u)
          /\ CutByStop(t[k])
          /\ \A i \in (k + 1)..Parts(u) : t[i] = "stopped"}

\* What run_single can return for a URL.
RunSingleOutcomes(u, s) ==
    IF s THEN {Failure("Stopped")} \cup {RunSingleResult(u, t) : t \in CutTreesOf(u)}
         ELSE {Failure("Scrape failed")} \cup {RunSingleResult(u, t) : t \in TreesOf(u)}

NoFetchers == [u \in URLS |-> "none"]
NoFres == [u \in URLS |-> Failure("null")]

\* api_start up to the test of scraper_running; the request thread goes on
\* if no run is active.  Request threads take the lowest free slot.
ApiStartCheck(c, t) ==
    /\ rev = "app" /\ runs < MaxRuns
    /\ req[c] = "idle" /\ ctl[c] = "idle" /\ wpc[c] = "none"
    /\ \A d \in 1..(c - 1) : req[d] # "idle" \/ ctl[d] # "idle" \/ wpc[d] # "none"
    /\ ~running
    /\ req' = [req EXCEPT ![c] = t]
    /\ runs' = runs + 1
    /\ UNCHANGED <<rev, fn, utype, dbvars, running, stop, stopped, worklist, marks, seqvars,
                   ctype, chain, ctl, tosubmit, fpc, fres, queue, wpc, wmarks,
                   enq, atstop, nwriters, dbcall, epvars>>

\* api_start after the test: sets the run state, clears the stop event,
\* populates the progress table and starts the control thread.
ApiStartBody(c) ==
    /\ rev = "app" /\ req[c] \in {"movies", "series", "anime"}
    /\ running' = TRUE /\ ctype' = req[c] /\ chain' = ChainOf(req[c])
    /\ stop' = FALSE /\ stopped' = FALSE
    /\ progress' = Populate(progress)
    /\ tosubmit' = [tosubmit EXCEPT ![c] = SetToSeq(AppGetPending(progress', req[c]))]
    /\ worklist' = AppGetPending(progress', req[c])
    /\ wmarks' = [wmarks EXCEPT ![c] = ZeroMarks]
    /\ enq' = [enq EXCEPT ![c] = {}] /\ atstop' = {}
    /\ fpc' = [fpc EXCEPT ![c] = NoFetchers]
    /\ fres' = [fres EXCEPT ![c] = NoFres]
    /\ ctl' = [ctl EXCEPT ![c] = "writer"]
    /\ req' = [req EXCEPT ![c] = "idle"]
    /\ UNCHANGED <<rev, fn, utype, shows, trees, runs, marks, seqvars, queue, wpc,
                   nwriters, dbcall, epvars>>

\* api_sync up to the test of scraper_running: the same test as api_start.
ApiSyncCheck(c) ==
    /\ rev = "app" /\ runs < MaxRuns
    /\ req[c] = "idle" /\ ctl[c] = "idle" /\ wpc[c] = "none"
    /\ \A d \in 1..(c - 1) : req[d] # "idle" \/ ctl[d] # "idle" \/ wpc[d] # "none"
    /\ ~running
    /\ req' = [req EXCEPT ![c] = "sync"]
    /\ runs' = runs + 1
    /\ UNCHANGED <<rev, fn, utype, dbvars, running, stop, stopped, worklist, marks, seqvars,
                   ctype, chain, ctl, tosubmit, fpc, fres, queue, wpc, wmarks,
                   enq, atstop, nwriters, dbcall, epvars>>

\* api_sync after the test: sets the run state, empties the chain, clears
\* the stop event and starts the sync thread.
ApiSyncBody(c) ==
    /\ rev = "app" /\ req[c] = "sync"
    /\ running' = TRUE /\ ctype' = "sync" /\ chain' = <<>>
    /\ stop' = FALSE /\ stopped' = FALSE
    /\ ctl' = [ctl EXCEPT ![c] = "sync"]
    /\ req' = [req EXCEPT ![c] = "idle"]
    /\ UNCHANGED <<rev, fn, utype, dbvars, runs, worklist, marks, seqvars, tosubmit,
                   fpc, fres, queue, wpc, wmarks, enq, atstop, nwriters,
                   dbcall, epvars>>

\* sync_thread_task: the sitemap is fetched and its show and movie URLs
\* collected; a URL without a progress row gets one (INSERT OR IGNORE, status
\* pending), and every URL of the sitemap, stored before or not, is handed to
\* start_scraper_thread(pending_urls, "sync").  Without a sitemap or without
\* links the run is over at once.
SyncThreadTask(c) ==
    /\ rev = "app" /\ ctl[c] = "sync"
    /\ \/ /\ running' = FALSE /\ ctype' = "none"
          /\ ctl' = [ctl EXCEPT ![c] = "idle"]
          /\ UNCHANGED <<progress, tosubmit, worklist, wmarks, enq, atstop, fpc, fres>>
       \/ \E U \in (SUBSET URLS) \ {{}} :
            /\ progress' = InitProgress(progress, U)
            /\ tosubmit' = [tosubmit EXCEPT ![c] = SetToSeq(U)]
            /\ worklist' = U
            /\ wmarks' = [wmarks EXCEPT ![c] = ZeroMarks]
            /\ enq' = [enq EXCEPT ![c] = {}] /\ atstop' = {}
            /\ fpc' = [fpc EXCEPT ![c] = NoFetchers]
            /\ fres' = [fres EXCEPT ![c] = NoFres]
            /\ ctl' = [ctl EXCEPT ![c] = "writer"]
            /\ UNCHANGED <<running, ctype>>
    /\ UNCHANGED <<rev, fn, utype, shows, trees, runs, stop, stopped, marks, seqvars,
                   chain, req, queue, wpc, nwriters, dbcall, epvars>>

\* api_stop.
ApiStop ==
    /\ rev = "app" /\ running
    /\ stop' = TRUE /\ stopped' = TRUE /\ chain' = <<>>
    /\ atstop' = atstop \cup {queue[i].url : i \in {j \in DOMAIN queue : queue[j] # NoneItem}}
    /\ UNCHANGED <<rev, fn, utype, dbvars, runs, running, worklist, marks, seqvars,
                   ctype, req, ctl, tosubmit, fpc, fres, queue, wpc, wmarks,
                   enq, nwriters, dbcall, epvars>>

\* api_stop statement by statement, on a request thread of its own:
\* STOP_EVENT.set() ...
ApiStopSet(c) ==
    /\ rev = "app" /\ running
    /\ req[c] = "idle" /\ ctl[c] = "idle" /\ wpc[c] = "none"
    /\ stop' = TRUE /\ stopped' = TRUE
    /\ atstop' = atstop \cup {queue[i].url : i \in {j \in DOMAIN queue : queue[j] # NoneItem}}
    /\ req' = [req EXCEPT ![c] = "stop"]
    /\ UNCHANGED <<rev, fn, utype, dbvars, runs, running, worklist, marks, seqvars,
                   ctype, chain, ctl, tosubmit, fpc, fres, queue, wpc, wmarks,
                   enq, nwriters, dbcall, epvars>>

\* ... and GLOBAL_STATE["scrape_queue"] = [].
ApiStopClear(c) ==
    /\ rev = "app" /\ req[c] = "stop"
    /\ chain' = <<>>
    /\ req' = [req EXCEPT ![c] = "idle"]
    /\ UNCHANGED <<rev, fn, utype, dbvars, runs, running, stop, stopped, worklist, marks,
                   seqvars, ctype, ctl, tosubmit, fpc, fres, queue, wpc, wmarks,
                   enq, atstop, nwriters, dbcall, epvars>>

\* start_scraper_thread: writer.start().
CtlStartWriter(c) ==
    /\ rev = "app" /\ ctl[c] = "writer"
    /\ wpc' = [wpc EXCEPT ![c] = "run"]
    /\ nwriters' = nwriters + 1
    /\ ctl' = [ctl EXCEPT ![c] = IF tosubmit[c] = <<>> THEN "shutdown" ELSE "submit"]
    /\ UNCHANGED <<rev, fn, utype, dbvars, runs, running, stop, stopped, worklist, marks,
                   seqvars, ctype, chain, req, tosubmit, fpc, fres, queue, wmarks,
                   enq, atstop, dbcall, epvars>>

\* for url in pending_urls: if STOP_EVENT.is_set(): break; executor.submit.
CtlSubmit(c) ==
    /\ rev = "app" /\ ctl[c] = "submit"
    /\ IF stop
       THEN /\ ctl' = [ctl EXCEPT ![c] = "shutdown"]
            /\ UNCHANGED <<tosubmit, fpc>>
       ELSE /\ fpc' = [fpc EXCEPT ![c][Head(tosubmit[c])] = "start"]
            /\ tosubmit' = [tosubmit EXCEPT ![c] = Tail(@)]
            /\ ctl' = [ctl EXCEPT ![c] = IF Tail(tosubmit[c]) = <<>> THEN "shutdown"
                                                                     ELSE "submit"]
    /\ UNCHANGED <<rev, fn, utype, dbvars, runs, running, stop, stopped, worklist, marks,
                   seqvars, ctype, chain, req, fres, queue, wpc, wmarks,
                   enq, atstop, nwriters, dbcall, epvars>>

\* executor.shutdown(wait=True) returns when every submitted task is over.
FetchersOver(c) == \A u \in URLS : fpc[c][u] \in {"none", "done"}

\* executor.shutdown(wait=True); DATA_QUEUE.put(None).
CtlShutdown(c) ==
    /\ rev = "app" /\ ctl[c] = "shutdown"
    /\ FetchersOver(c)
    /\ queue' = Append(queue, NoneItem)
    /\ ctl' = [ctl EXCEPT ![c] = "join"]
    /\ UNCHANGED <<rev, fn, utype, dbvars, runs, running, stop, stopped, worklist, marks,
                   seqvars, ctype, chain, req, tosubmit, fpc, fres, wpc, wmarks,
                   enq, atstop, nwriters, dbcall, epvars>>

\* writer.join(), then the test for a next type to scrape; without one the
\* run is over.
CtlJoinNoWait(c) ==
    /\ rev = "app" /\ ctl[c] = "join"
    /\ IF chain # <<>> /\ ~stop /\ ctype # "sync"
       THEN /\ ctl' = [ctl EXCEPT ![c] = "chain"]
            /\ UNCHANGED <<running, ctype, chain>>
       ELSE /\ running' = FALSE /\ ctype' = "none" /\ chain' = <<>>
            /\ ctl' = [ctl EXCEPT ![c] = "idle"]
    /\ UNCHANGED <<rev, fn, utype, dbvars, runs, stop, stopped, worklist, marks,
                   seqvars, req, tosubmit, fpc, fres, queue, wpc, wmarks,
                   enq, atstop, nwriters, dbcall, epvars>>
CtlJoin(c) ==
    /\ rev = "app" /\ ctl[c] = "join"
    /\ wpc[c] = "none"
    /\ IF chain # <<>> /\ ~stop /\ ctype # "sync"
       THEN /\ ctl' = [ctl EXCEPT ![c] = "chain"]
            /\ UNCHANGED <<running, ctype, chain>>
       ELSE /\ running' = FALSE /\ ctype' = "none" /\ chain' = <<>>
            /\ ctl' = [ctl EXCEPT ![c] = "idle"]
    /\ UNCHANGED <<rev, fn, utype, dbvars, runs, stop, stopped, worklist, marks,
                   seqvars, req, tosubmit, fpc, fres, queue, wpc, wmarks,
                   enq, atstop, nwriters, dbcall, epvars>>

\* next_type = scrape_queue.pop(0), populate_and_get_pending_urls(next_type),
\* start_scraper_thread(next_pending_urls, next_type).  pop(0) of a queue
\* emptied in the meantime raises outside the try: the thread dies.
CtlChain(c) ==
    /\ rev = "app" /\ ctl[c] = "chain"
    /\ IF chain = <<>>
       THEN /\ ctl' = [ctl EXCEPT ![c] = "dead"]
            /\ UNCHANGED <<chain, ctype, progress, tosubmit, worklist, fpc, fres>>
       ELSE /\ chain' = Tail(chain)
            /\ ctype' = Head(chain)
            /\ progress' = Populate(progress)
            /\ tosubmit' = [tosubmit EXCEPT ![c] = SetToSeq(AppGetPending(progress', Head(chain)))]
            /\ worklist' = worklist \cup AppGetPending(progress', Head(chain))
            /\ fpc' = [fpc EXCEPT ![c] = NoFetchers]
            /\ fres' = [fres EXCEPT ![c] = NoFres]
            /\ ctl' = [ctl EXCEPT ![c] = "writer"]
    /\ UNCHANGED <<rev, fn, utype, shows, trees, runs, running, stop, stopped, marks,
                   seqvars, req, queue, wpc, wmarks,
                   enq, atstop, nwriters, dbcall, epvars>>

\* fetcher_task: if STOP_EVENT.is_set(): return (before run_single).
FetchBegin(c, u) ==
    /\ rev = "app" /\ fpc[c][u] = "start"
    /\ fpc' = [fpc EXCEPT ![c][u] = IF stop THEN "done" ELSE "run"]
    /\ UNCHANGED <<rev, fn, utype, dbvars, runs, running, stop, stopped, worklist, marks,
                   seqvars, ctype, chain, req, ctl, tosubmit, fres, queue, wpc, wmarks,
                   enq, atstop, nwriters, dbcall, epvars>>

\* fetcher_task: result, error = run_single(url).
FetchResolve(c, u) ==
    /\ rev = "app" /\ fpc[c][u] = "run"
    /\ \E r \in RunSingleOutcomes(u, stop) : fres' = [fres EXCEPT ![c][u] = r]
    /\ fpc' = [fpc EXCEPT ![c][u] = "final"]
    /\ UNCHANGED <<rev, fn, utype, dbvars, runs, running, stop, stopped, worklist, marks,
                   seqvars, ctype, chain, req, ctl, tosubmit, queue, wpc, wmarks,
                   enq, atstop, nwriters, dbcall, epvars>>

\* fetcher_task: if STOP_EVENT.is_set(): return; DATA_QUEUE.put(...).
FetchPut(c, u) ==
    /\ rev = "app" /\ fpc[c][u] = "final"
    /\ fpc' = [fpc EXCEPT ![c][u] = "done"]
    /\ fres' = [fres EXCEPT ![c][u] = Failure("null")]
    /\ queue' = IF stop THEN queue ELSE Append(queue, Item(u, fres[c][u], c))
    /\ enq' = IF stop THEN enq ELSE [enq EXCEPT ![c] = @ \cup {u}]
    /\ UNCHANGED <<rev, fn, utype, dbvars, runs, running, stop, stopped, worklist, marks,
                   seqvars, ctype, chain, req, ctl, tosubmit, wpc, wmarks,
                   atstop, nwriters, dbcall, epvars>>

\* insert_seasons_episodes_servers / insert_movie_servers of src/app.py: an
\* exception of the database is caught and logged inside, the rows of the
\* tree are not written and the call returns normally.
AppInsertTree(tr, sid, t, raised) == IF raised THEN tr ELSE InsertTree(tr, sid, t)

\* writer_thread_task: one item of the queue: insert_show, the tree, and
\* mark_progress; insert_show returns None on a database error.
WriterProcess(c) ==
    /\ rev = "app" /\ wpc[c] = "run"
    /\ queue # <<>> /\ Head(queue) # NoneItem
    /\ LET it == Head(queue)
           r == AppInsertShow(shows, it.url)
       IN /\ \E dberr \in {"none", "show", "tree"} :
               IF ~it.ok
               THEN /\ progress' = AppMarkProgress(progress, it.url, "failed", 0, it.error)
                    /\ UNCHANGED <<shows, trees>>
               ELSE IF dberr = "show"
               THEN /\ progress' = AppMarkProgress(progress, it.url, "failed", 0,
                                                   "Duplicate or DB insert error")
                    /\ UNCHANGED <<shows, trees>>
               ELSE /\ shows' = r.shows
                    /\ trees' = AppInsertTree(trees, r.id, it.tree, dberr = "tree")
                    /\ progress' = AppMarkProgress(progress, it.url, "completed", r.id, "null")
          /\ wmarks' = [wmarks EXCEPT ![it.by] = Bump(@, it.url)]
    /\ queue' = Tail(queue)
    /\ UNCHANGED <<rev, fn, utype, runs, running, stop, stopped, worklist, marks,
                   seqvars, ctype, chain, req, ctl, tosubmit, fpc, fres, wpc,
                   enq, atstop, nwriters, dbcall, epvars>>

\* writer_thread_task: item is None: the writer stops.
WriterSentinel(c) ==
    /\ rev = "app" /\ wpc[c] = "run"
    /\ queue # <<>> /\ Head(queue) = NoneItem
    /\ queue' = Tail(queue)
    /\ wpc' = [wpc EXCEPT ![c] = "none"]
    /\ nwriters' = nwriters - 1
    /\ UNCHANGED <<rev, fn, utype, dbvars, runs, running, stop, stopped, worklist, marks,
                   seqvars, ctype, chain, req, ctl, tosubmit, fpc, fres, wmarks,
                   enq, atstop, dbcall, epvars>>

\* writer_thread_task, except queue.Empty: the test that stops the writer.
WriterExitsOnEmptyAlways(run, q) == Len(q) = 0
WriterExitsOnEmpty(run, q) == ~run /\ Len(q) = 0

\* writer_thread_task: DATA_QUEUE.get(timeout=3) raised queue.Empty; the
\* writer stops or waits again.
WriterTimeout(c) ==
    /\ rev = "app" /\ wpc[c] = "run"
    /\ queue = <<>>
    /\ wpc' = IF WriterExitsOnEmpty(running, queue) THEN [wpc EXCEPT ![c] = "none"]
                                                     ELSE wpc
    /\ nwriters' = IF WriterExitsOnEmpty(running, queue) THEN nwriters - 1 ELSE nwriters
    /\ UNCHANGED <<rev, fn, utype, dbvars, runs, running, stop, stopped, worklist, marks,
                   seqvars, ctype, chain, req, ctl, tosubmit, fpc, fres, queue, wmarks,
                   enq, atstop, dbcall, epvars>>

\* The steps of the request, control, fetcher and writer threads of the
\* slots S.
NextAppOver(S) ==
    \/ \E c \in S, t \in {"movies", "series", "anime"} : ApiStartCheck(c, t)
    \/ \E c \in S : ApiStartBody(c)
    \/ ApiStop
    \/ \E c \in S : CtlStartWriter(c)
    \/ \E c \in S : CtlSubmit(c)
    \/ \E c \in S : CtlShutdown(c)
    \/ \E c \in S : CtlJoin(c)
    \/ \E c \in S : CtlChain(c)
    \/ \E c \in S, u \in URLS : FetchBegin(c, u)
    \/ \E c \in S, u \in URLS : FetchResolve(c, u)
    \/ \E c \in S, u \in URLS : FetchPut(c, u)
    \/ \E c \in S : WriterProcess(c)
    \/ \E c \in S : WriterSentinel(c)
    \/ \E c \in S : WriterTimeout(c)

\* Start requests served one at a time.
NextApp == NextAppOver({1})

\* ----------------------------- scrape_season_episodes and its worker pool
\* The anchors of one season listing and the natural key of each in src/app.py
\* (its title, else its link): the first two anchors carry the same key.
Anchors == 1..NAnchors
AnchorKey(a) == IF a = 2 THEN 1 ELSE a

\* The number text of an anchor (title and inner text): ep, the word
\* "Episode" (or its Arabic form) stands before the numbers; sp, the text holds
\* the word "Special"; num, the numbers of the text in order ("1 and 2" has
\* two).  Numbers are counted in halves, so that "1" and "1.5" are both
\* integers: Whole(1) is "1", Whole(1) + 1 is "1.5".  An episode number
\* string is the sequence of its numbers: <<Whole(1), Whole(2)>> is "1-2",
\* <<>> is None.
Whole(n) == 2 * n
\* int(m.group(1)) of a match of (\d+): the digits before the point.
Floor(h) == Whole(h \div 2)
Text(e, s, n) == [ep |-> e, sp |-> s, num |-> n]
AnchorTexts == {Text(FALSE, FALSE, <<>>), Text(FALSE, TRUE, <<>>),
                Text(TRUE, FALSE, <<Whole(0)>>), Text(TRUE, FALSE, <<Whole(1)>>),
                Text(TRUE, FALSE, <<Whole(1) + 1>>),
                Text(TRUE, FALSE, <<Whole(1), Whole(2)>>),
                Text(FALSE, FALSE, <<Whole(2)>>)}

\* The anchors on the page of the listing that scrape_season_episodes
\* fetches; every further page of the listing holds one anchor.
FirstPage(pg) == {a \in Anchors : a <= NAnchors - (pg - 1)}

Unnumbered == 99999
NoNumber == 999

\* process_episode of src/app.py, "New Episode Number Logic": episode 0 or
\* special gives "0", then the numbers after the word Episode as they stand,
\* joined by "-", then the first integer of the text
\* (extract_number_from_text; 0 counts as none); else None.
AppEpNum(t) ==
    IF (t.ep /\ t.num # <<>> /\ Floor(t.num[1]) = 0) \/ t.sp THEN <<Whole(0)>>
    ELSE IF t.ep /\ t.num # <<>> THEN t.num
    ELSE IF t.num # <<>> /\ Floor(t.num[1]) # 0 THEN <<Floor(t.num[1])>>
    ELSE <<>>

\* get_sort_key: the first number of the string, 99999.0 for None.
GetSortKey(n) == IF n = <<>> THEN Whole(Unnumbered) ELSE n[1]

\* process_episode of src/02_scraper_with_db.py and src/app-deep-note.py:
\* int() of the first digits found; none, or 0, becomes 999.
CliEpNum(t) == IF t.num = <<>> \/ Floor(t.num[1]) = 0 THEN Whole(NoNumber)
               ELSE Floor(t.num[1])

\* The key tested against seen: the title in src/app.py, str(ep_num) in
\* src/02_scraper_with_db.py.
EpKey(r, a, t) == IF r = "app" THEN AnchorKey(a) ELSE CliEpNum(t)

NoEpc == <<>>
NoEres == <<>>

\* process_episode: if STOP_EVENT.is_set(): return None; ...;
\* if key in seen: return None.
EpCheck(a) ==
    /\ epc # NoEpc /\ epc[a] = "submitted"
    /\ IF stop \/ EpKey(rev, a, atext[a]) \in seen
       THEN /\ epc' = [epc EXCEPT ![a] = "done"]
            /\ eres' = [eres EXCEPT ![a] = "None"]
       ELSE /\ epc' = [epc EXCEPT ![a] = "checked"]
            /\ UNCHANGED eres
    /\ UNCHANGED <<rev, fn, utype, dbvars, runs, running, stop, stopped, worklist, marks,
                   seqvars, ctype, chain, req, ctl, tosubmit, fpc, fres, queue,
                   wpc, wmarks, enq, atstop, nwriters, dbcall, seen, elist,
                   pages, atext, hits, ppc, servers, slinks, sseasons>>

\* process_episode: seen.add(key).
EpAdd(a) ==
    /\ epc # NoEpc /\ epc[a] = "checked"
    /\ seen' = seen \cup {EpKey(rev, a, atext[a])}
    /\ epc' = [epc EXCEPT ![a] = "added"]
    /\ UNCHANGED <<rev, fn, utype, dbvars, runs, running, stop, stopped, worklist, marks,
                   seqvars, ctype, chain, req, ctl, tosubmit, fpc, fres, queue,
                   wpc, wmarks, enq, atstop, nwriters, dbcall, eres, elist,
                   pages, atext, hits, ppc, servers, slinks, sseasons>>

\* What process_episode returns after seen.add: None when src/app.py finds
\* no episode number, None from the except branch when the rest raised
\* ("error" keeps the two apart), else the episode.
EpResultPoisoned(a, raised) ==
    IF rev = "app" /\ AppEpNum(atext[a]) = <<>> THEN "None"
    ELSE IF raised THEN "error"
    ELSE IF \E b \in Anchors : eres[b] = "error" THEN "None"
    ELSE "episode"
EpResult(a, raised) ==
    IF rev = "app" /\ AppEpNum(atext[a]) = <<>> THEN "None"
    ELSE IF raised THEN "error"
    ELSE "episode"

\* process_episode: the episode number, the watch page and the servers
\* (fetch_html returns None once the stop event is set: no servers); the
\* as_completed loop of src/app.py and src/app-deep-note.py appends the result
\* unless it broke on the stop event.
EpFetch(a) ==
    /\ epc # NoEpc /\ epc[a] = "added"
    /\ epc' = [epc EXCEPT ![a] = "done"]
    /\ \E raised \in BOOLEAN :
         /\ eres' = [eres EXCEPT ![a] = EpResult(a, raised)]
         /\ elist' = IF rev # "cli" /\ ~stop /\ EpResult(a, raised) = "episode"
                     THEN Append(elist, a) ELSE elist
    /\ UNCHANGED <<rev, fn, utype, dbvars, runs, running, stop, stopped, worklist, marks,
                   seqvars, ctype, chain, req, ctl, tosubmit, fpc, fres, queue,
                   wpc, wmarks, enq, atstop, nwriters, dbcall, seen,
                   pages, atext, hits, ppc, servers, slinks, sseasons>>

\* api_stop while a season is resolved (src/app.py, src/app-deep-note.py).
EpStop ==
    /\ epc # NoEpc /\ ~stop /\ rev # "cli"
    /\ stop' = TRUE /\ stopped' = TRUE
    /\ UNCHANGED <<rev, fn, utype, dbvars, runs, running, worklist, marks,
                   seqvars, ctype, chain, req, ctl, tosubmit, fpc, fres, queue,
                   wpc, wmarks, enq, atstop, nwriters, dbcall, epvars>>

\* The results of process_episode that are not None.
Episodes == {a \in Anchors : eres[a] = "episode"}

\* list.sort(key=...): a stable sort, by insertion.
RECURSIVE InsertByKey(_, _, _)
InsertByKey(sorted, x, k) ==
    IF sorted = <<>> THEN <<x>>
    ELSE IF k[x] < k[Head(sorted)] THEN <<x>> \o sorted
    ELSE <<Head(sorted)>> \o InsertByKey(Tail(sorted), x, k)
RECURSIVE SortByKey(_, _)
SortByKey(seq, k) ==
    IF seq = <<>> THEN <<>>
    ELSE InsertByKey(SortByKey(SubSeq(seq, 1, Len(seq) - 1), k), seq[Len(seq)], k)

\* The anchors of a set in listing order (ex.map of
\* src/02_scraper_with_db.py yields the results in the order submitted).
InListingOrder(S) == SelectSeq([a \in Anchors |-> a], LAMBDA a : a \in S)

AppSortKeys == [a \in Anchors |-> IF atext = <<>> THEN 0 ELSE GetSortKey(AppEpNum(atext[a]))]
CliNums == [a \in Anchors |-> IF atext = <<>> THEN 0 ELSE CliEpNum(atext[a])]

\* The list scrape_season_episodes returns, each episode named by its
\* anchor: src/app.py sorts the appended episodes by get_sort_key;
\* src/02_scraper_with_db.py and src/app-deep-note.py sort by number and drop
\* the number 999.
EpisodeList ==
    IF rev = "app" THEN SortByKey(elist, AppSortKeys)
    ELSE SelectSeq(SortByKey(IF rev = "note" THEN elist
                                             ELSE InListingOrder(Episodes), CliNums),
                   LAMBDA a : CliNums[a] # Whole(NoNumber))

\* The number each returned episode carries.
EpisodeNumber(a) == IF rev = "app" THEN AppEpNum(atext[a]) ELSE <<CliEpNum(atext[a])>>

\* Every task of the pool is over.
SeasonDone == epc # NoEpc /\ \A a \in FirstPage(pages) : epc[a] = "done"

NextEp == \/ \E a \in Anchors : EpCheck(a)
          \/ \E a \in Anchors : EpAdd(a)
          \/ \E a \in Anchors : EpFetch(a)
          \/ EpStop

\* ------------------------------------- get_episode_servers: the server probes
\* for i in range(total_servers): the probe indices.
ProbeIdx == 0..(NProbes - 1)

\* fetch_one(i): the POST for index i is over.  The result is the entry of
\* the index when the answer holds an iframe with a src (i \in hits); None
\* when it does not, when the request raised, or (src/app.py) when the stop
\* event is set.
ProbeFetch(i) ==
    /\ ppc # <<>> /\ ppc[i] = "submitted"
    /\ \E raised \in BOOLEAN :
         ppc' = [ppc EXCEPT ![i] = IF i \in hits /\ ~raised /\ ~stop
                                   THEN "entry" ELSE "None"]
    /\ UNCHANGED <<rev, fn, utype, dbvars, runs, running, stop, stopped, worklist, marks,
                   seqvars, ctype, chain, req, ctl, tosubmit, fpc, fres, queue,
                   wpc, wmarks, enq, atstop, nwriters, dbcall, seen, epc, eres,
                   elist, pages, atext, hits, servers, slinks, sseasons>>

\* for fut in as_completed(futures): a finished future is taken; its result
\* is appended unless it is None (src/app.py leaves the loop once the stop
\* event is set).
ProbeCollect(i) ==
    /\ ppc # <<>> /\ ppc[i] \in {"entry", "None"}
    /\ ppc' = [ppc EXCEPT ![i] = IF ppc[i] = "entry" THEN "taken" ELSE "empty"]
    /\ servers' = IF ppc[i] = "entry" /\ ~stop THEN Append(servers, i) ELSE servers
    /\ UNCHANGED <<rev, fn, utype, dbvars, runs, running, stop, stopped, worklist, marks,
                   seqvars, ctype, chain, req, ctl, tosubmit, fpc, fres, queue,
                   wpc, wmarks, enq, atstop, nwriters, dbcall, seen, epc, eres,
                   elist, pages, atext, hits, slinks, sseasons>>

\* api_stop while the servers of an episode are probed (src/app.py).
ProbeStop ==
    /\ ppc # <<>> /\ ~stop /\ rev = "app"
    /\ stop' = TRUE /\ stopped' = TRUE
    /\ UNCHANGED <<rev, fn, utype, dbvars, runs, running, worklist, marks,
                   seqvars, ctype, chain, req, ctl, tosubmit, fpc, fres, queue,
                   wpc, wmarks, enq, atstop, nwriters, dbcall, epvars>>

\* servers.sort(key=lambda x: x.get("server_number", 0)); return servers.
ServerListUnsorted == servers
ServerList == SortByKey(servers, [i \in ProbeIdx |-> i])

\* Every future was taken by the as_completed loop.
ProbesDone == ppc # <<>> /\ \A i \in ProbeIdx : ppc[i] \in {"taken", "empty"}

\* The indices whose probe gave an entry.
Usable == {i \in ProbeIdx : ppc[i] = "taken"}

NextProbes == \/ \E i \in ProbeIdx : ProbeFetch(i)
              \/ \E i \in ProbeIdx : ProbeCollect(i)
              \/ ProbeStop

\* ------------------------------------------ scrape_series: the season links
\* A season link of the show page: its href and the number found in its
\* title (0 when extract_number_from_text finds none, or finds 0).
SeasonLinks == [url : 1..NLinkUrls, num : 0..NSeasons]

RECURSIVE SeasonsOf(_, _)
\* for s_el in soup.select(...): a link whose href was seen is skipped; the
\* others are appended with s_num = extract_number_from_text(s_title) or 1.
SeasonsOf(links, seen_urls) ==
    IF links = <<>> THEN <<>>
    ELSE IF Head(links).url \in seen_urls THEN SeasonsOf(Tail(links), seen_urls)
    ELSE <<[season_number |-> IF Head(links).num = 0 THEN 1 ELSE Head(links).num,
            link |-> Head(links).url]>>
         \o SeasonsOf(Tail(links), seen_urls \cup {Head(links).url})

\* season_urls[s_num] = s_url: the last link of a number wins.
SeasonUrl(ss, n) ==
    ss[CHOOSE i \in 1..Len(ss) :
          /\ ss[i].season_number = n
          /\ \A j \in (i + 1)..Len(ss) : ss[j].season_number # n].link

\* scrape_series: the seasons list, sorted by season_number; a page without
\* season links is a single season 1 at the show URL (link 0); each season
\* is resolved from season_urls[s_num] (-1: the number has no URL and the
\* season is left without episodes).
ScrapeSeriesSeasonsNoUrl(links) ==
    LET ss == SeasonsOf(links, {})
        sorted == SortByKey(ss, [x \in {ss[i] : i \in 1..Len(ss)} |-> x.season_number])
    IN IF ss = <<>> THEN <<[season_number |-> 1, link |-> 0, resolved_from |-> -1]>>
       ELSE [i \in 1..Len(sorted) |->
               [season_number |-> sorted[i].season_number,
                link |-> sorted[i].link,
                resolved_from |-> SeasonUrl(ss, sorted[i].season_number)]]
ScrapeSeriesSeasons(links) ==
    LET ss == SeasonsOf(links, {})
        sorted == SortByKey(ss, [x \in {ss[i] : i \in 1..Len(ss)} |-> x.season_number])
    IN IF ss = <<>> THEN <<[season_number |-> 1, link |-> 0, resolved_from |-> 0]>>
       ELSE [i \in 1..Len(sorted) |->
               [season_number |-> sorted[i].season_number,
                link |-> sorted[i].link,
                resolved_from |-> SeasonUrl(ss, sorted[i].season_number)]]

\* scrape_series is applied to the show page.
ScrapeSeries ==
    /\ sseasons = <<>>
    /\ sseasons' = ScrapeSeriesSeasons(slinks)
    /\ UNCHANGED <<rev, fn, utype, dbvars, runs, running, stop, stopped, worklist, marks,
                   seqvars, ctype, chain, req, ctl, tosubmit, fpc, fres, queue,
                   wpc, wmarks, enq, atstop, nwriters, dbcall, seen, epc, eres,
                   elist, pages, atext, hits, ppc, servers, slinks>>

NextSeries == ScrapeSeries

\* ------------------------------------------------- functions applied alone
NoFn == [name |-> "none", arg |-> <<>>, done |-> FALSE, res |-> <<>>]
Applied(f) == fn.name = f /\ fn.done

\* A function is applied to its argument.
Apply(f, res) ==
    /\ fn.name = f /\ ~fn.done
    /\ fn' = [fn EXCEPT !.done = TRUE, !.res = res]
    /\ UNCHANGED <<rev, utype, progress, shows, trees, runs, running, stop, stopped,
                   worklist, marks, seqvars, appvars>>

\* -------------- extract_episode_number (outdated scripts/test_episode_parsing)
\* A title or text is a sequence of words: the episode word ("الحلقة",
\* "Episode"), the special word, the joining word ("و", "&", "and") and
\* numbers, counted in halves.
Tok(k, v) == [k |-> k, v |-> v]
EpWord == Tok("ep", 0)
SpWord == Tok("sp", 0)
AndWord == Tok("and", 0)
Num(h) == Tok("num", h)
Words == {EpWord, SpWord, AndWord, Num(Whole(0)), Num(Whole(1)), Num(Whole(1) + 1)}
IsNum(w) == w.k = "num"
IsFrac(w) == IsNum(w) /\ w.v % 2 = 1
StringsUpTo(n) == UNION {[1..m -> Words] : m \in 0..n}

\* The least index of a sequence that satisfies a test, 0 when none does.
FirstIdx(s, Test(_, _)) ==
    IF \E i \in 1..Len(s) : Test(s, i)
    THEN CHOOSE i \in 1..Len(s) : Test(s, i) /\ \A j \in 1..(i - 1) : ~Test(s, j)
    ELSE 0

\* REGEX_PATTERNS['episode_merged'].search:
\* (?:الحلقة|Episode)\s*(\d+)\s*(?:و|&|and)\s*(\d+).
SearchMerged(s) ==
    \E i \in 1..(Len(s) - 3) :
       /\ s[i] = EpWord /\ IsNum(s[i + 1]) /\ ~IsFrac(s[i + 1])
       /\ s[i + 2] = AndWord /\ IsNum(s[i + 3])

\* REGEX_PATTERNS['episode_special'].search:
\* (?:الحلقة|Episode)\s*(?:الخاصة|Special).
SearchSpecial(s) == \E i \in 1..(Len(s) - 1) : s[i] = EpWord /\ s[i + 1] = SpWord

\* REGEX_PATTERNS['episode_decimal'].search, (\d+\.\d+): float(group(1)) of
\* the first match, <<>> without one.
SearchDecimal(s) ==
    LET i == FirstIdx(s, LAMBDA t, j : IsFrac(t[j]))
    IN IF i = 0 THEN <<>> ELSE <<s[i].v>>

\* REGEX_PATTERNS['episode'].search, (?:الحلقة|Episode)\s*(\d+(?:\.\d+)?).
SearchEpisode(s) ==
    LET i == FirstIdx(s, LAMBDA t, j : j < Len(t) /\ t[j] = EpWord /\ IsNum(t[j + 1]))
    IN IF i = 0 THEN <<>> ELSE <<s[i + 1].v>>

\* extract_number_from_text of the script: int() of the first digits.
TestExtractNumber(s) ==
    LET i == FirstIdx(s, LAMBDA t, j : IsNum(t[j]))
    IN IF i = 0 THEN <<>> ELSE <<Floor(s[i].v)>>

\* x or y, for match objects and for numbers (None and 0 are false).
Truthy(x) == x # <<>> /\ x[1] # 0
OrMatch(x, y) == IF x # <<>> THEN x ELSE y
OrNum(x, y) == IF Truthy(x) THEN x ELSE y

\* extract_episode_number(ep_title, ep_num_text); <<>> is None.
ExtractEpisodeNumber(title, text) ==
    IF SearchMerged(title) \/ SearchMerged(text) THEN <<>>
    ELSE IF SearchSpecial(title) \/ SearchSpecial(text) THEN <<>>
    ELSE IF OrMatch(SearchDecimal(title), SearchDecimal(text)) # <<>>
         THEN OrMatch(SearchDecimal(title), SearchDecimal(text))
    ELSE IF OrMatch(SearchEpisode(title), SearchEpisode(text)) # <<>>
         THEN OrMatch(SearchEpisode(title), SearchEpisode(text))
    ELSE LET num == OrNum(TestExtractNumber(title), TestExtractNumber(text))
         IN IF Truthy(num) THEN num ELSE <<>>

ExtractEpisodeNumberCall ==
    Apply("extract_episode_number", ExtractEpisodeNumber(fn.arg[1], fn.arg[2]))
NextParse == ExtractEpisodeNumberCall

\* --------------------------------------------- reading the URL-list files
\* A URL-list file: it is there and holds a list ("ok"), it is not there
\* ("missing"), or json.load raises on it ("malformed").
FileStates == {"ok", "missing", "malformed"}
FileNames == {JsonFiles[i] : i \in 1..Len(JsonFiles)}
UrlFiles == {fs \in [FileNames -> [state : FileStates, urls : SUBSET URLS]] :
               \A f \in FileNames : fs[f].urls \subseteq FileUrls(f)}
Loaders == {"app", "cli", "batch"}

\* What reading one file does in each program: "urls" (its URLs are taken),
\* "skipped" (a warning, the loop goes on) or "raised" (the exception leaves
\* the loader).  populate_and_get_pending_urls of src/app.py wraps open and
\* json.load in try/except Exception; the main loop of
\* src/02_scraper_with_db.py tests os.path.exists and then calls
\* get_pending_urls, whose json.load is not guarded; load_urls_from_json of
\* src/batch_scraper.py guards nothing.
ReadFile(loader, state) ==
    IF state = "ok" THEN "urls"
    ELSE IF loader = "app" THEN "skipped"
    ELSE IF loader = "cli" /\ state = "missing" THEN "skipped"
    ELSE "raised"

\* One turn of the loop over the files.
LoadFile ==
    /\ fn.name = "load" /\ ~fn.done
    /\ LET f == JsonFiles[fn.res.idx]
           file == fn.arg.files[f]
           out == ReadFile(fn.arg.loader, file.state)
       IN fn' = [fn EXCEPT
                   !.res = [idx |-> IF out = "raised" THEN @.idx ELSE @.idx + 1,
                            urls |-> IF out = "urls" THEN @.urls \cup file.urls ELSE @.urls,
                            raised |-> out = "raised"],
                   !.done = out = "raised" \/ fn.res.idx = Len(JsonFiles)]
    /\ UNCHANGED <<rev, utype, progress, shows, trees, runs, running, stop, stopped,
                   worklist, marks, seqvars, appvars>>
NextLoad == LoadFile

\* ------------------------------------------------------------ clean_title
\* A title is a sequence of words separated by blanks: a category word
\* ("cat": فيلم, انمي, مسلسل, anime, film, movie, series), a qualifier word
\* ("qual": مترجم, اونلاين, online, ...), a run of the stripped punctuation
\* standing alone ("p": -, |, :), a category word with such punctuation stuck
\* before it ("pcat": "-movie"), a qualifier word with it stuck behind
\* ("qualp": "online:"), or any other word ("w").
TitleWords == {"cat", "qual", "p", "pcat", "qualp", "w"}
Titles == UNION {[1..n -> TitleWords] : n \in 0..MaxWords}

\* REGEX_PATTERNS['title_clean_prefix'].sub('', title):
\* ^\s*(category word)\s+ matches once, at the start, before another word.
SubPrefix(t) == IF Len(t) >= 2 /\ t[1] = "cat" THEN Tail(t) ELSE t

\* The while loop over REGEX_PATTERNS['title_clean_suffix'].sub(' ', cleaned),
\* \s+(qualifier word)(\s+|$): at its fixed point every qualifier word
\* that is not the first word is gone.
SubSuffix(t) ==
    IF t = <<>> THEN t
    ELSE <<t[1]>> \o SelectSeq(Tail(t), LAMBDA w : w # "qual")

RECURSIVE LStrip(_)
RECURSIVE RStrip(_)
\* ' '.join(cleaned.split()).strip(' -–—|:،؛').
LStrip(t) ==
    IF t = <<>> THEN t
    ELSE IF Head(t) = "p" THEN LStrip(Tail(t))
    ELSE IF Head(t) = "pcat" THEN <<"cat">> \o Tail(t)
    ELSE t
RStrip(t) ==
    IF t = <<>> THEN t
    ELSE IF t[Len(t)] = "p" THEN RStrip(SubSeq(t, 1, Len(t) - 1))
    ELSE IF t[Len(t)] = "qualp" THEN SubSeq(t, 1, Len(t) - 1) \o <<"qual">>
    ELSE t

\* clean_title(title).
CleanTitle(t) == IF t = <<>> THEN t ELSE RStrip(LStrip(SubSuffix(SubPrefix(t))))

\* clean_title is applied to the title, and again to what it returned.
CleanTitleCall ==
    /\ fn.name = "clean_title" /\ ~fn.done
    /\ fn' = [fn EXCEPT
                !.res = Append(@, CleanTitle(IF @ = <<>> THEN fn.arg ELSE @[Len(@)])),
                !.done = Len(fn.res) = 1]
    /\ UNCHANGED <<rev, utype, progress, shows, trees, runs, running, stop, stopped,
                   worklist, marks, seqvars, appvars>>
NextTitle == CleanTitleCall

\* ------------------------------------------- the Database interface alone
NoCall == [op |-> "none"]
MarkCall(u, st, sid, err) ==
    [op |-> "mark", url |-> u, status |-> st, show_id |-> sid, error |-> err]

\* Database.mark_progress of the revision.
MarkProgress(r, p, u, st, sid, err) ==
    IF r = "app" THEN AppMarkProgress(p, u, st, sid, err)
                 ELSE CliMarkProgress(p, u, st, sid, err)

\* db.mark_progress(url, status, show_id, error).
DbMarkProgress(u, st, sid, err) ==
    /\ runs < MaxCalls \/ dbcall = MarkCall(u, st, sid, err)
    /\ progress' = MarkProgress(rev, progress, u, st, sid, err)
    /\ dbcall' = MarkCall(u, st, sid, err)
    /\ runs' = IF runs < MaxCalls THEN runs + 1 ELSE runs
    /\ UNCHANGED <<rev, fn, utype, shows, trees, running, stop, stopped, worklist, marks,
                   seqvars, ctype, chain, req, ctl, tosubmit, fpc, fres, queue,
                   wpc, wmarks, enq, atstop, nwriters, epvars>>

\* db.init_progress(urls) / the INSERT OR IGNORE of
\* populate_and_get_pending_urls.
DbInitProgress(urls) ==
    /\ runs < MaxCalls
    /\ progress' = InitProgress(progress, urls)
    /\ dbcall' = [op |-> "init", urls |-> urls]
    /\ runs' = runs + 1
    /\ UNCHANGED <<rev, fn, utype, shows, trees, running, stop, stopped, worklist, marks,
                   seqvars, ctype, chain, req, ctl, tosubmit, fpc, fres, queue,
                   wpc, wmarks, enq, atstop, nwriters, epvars>>

NextDb == \/ \E u \in URLS : \/ DbMarkProgress(u, "completed", u, "null")
                             \/ DbMarkProgress(u, "failed", 0, "error")
          \/ \E urls \in SUBSET URLS : DbInitProgress(urls)

InitDb == /\ progress = [u \in URLS |-> NoRec]
          /\ shows = <<>>
          /\ trees = NoTrees
InitIdle == /\ running = FALSE /\ stop = FALSE /\ stopped = FALSE
              /\ worklist = {} /\ marks = ZeroMarks
              /\ pc = "idle" /\ fileIdx = 1 /\ work = <<>> /\ cur = NoCur
              /\ ctype = "none" /\ chain = <<>> /\ queue = <<>>
              /\ req = [c \in T |-> "idle"] /\ ctl = [c \in T |-> "idle"]
              /\ tosubmit = [c \in T |-> <<>>]
              /\ fpc = [c \in T |-> NoFetchers] /\ fres = [c \in T |-> NoFres]
              /\ wpc = [c \in T |-> "none"]
              /\ wmarks = [c \in T |-> ZeroMarks]
              /\ enq = [c \in T |-> {}] /\ atstop = {} /\ nwriters = 0
\* The URLs of the input files hold the word of their type.
TypedUrls == utype = [u \in URLS |-> Kind(u)]
InitBase == InitDb /\ runs = 0 /\ InitIdle /\ TypedUrls
IdleEp == /\ seen = {} /\ epc = NoEpc /\ eres = NoEres /\ elist = <<>>
          /\ pages = 1 /\ atext = <<>>
IdleProbes == hits = {} /\ ppc = <<>> /\ servers = <<>>
IdleSeries == slinks = <<>> /\ sseasons = <<>>
IdleFn == fn = NoFn
InitCommon == /\ InitBase
              /\ dbcall = NoCall
              /\ IdleEp /\ IdleProbes /\ IdleSeries /\ IdleFn
InitCli == rev = "cli" /\ InitCommon
SpecCli == InitCli /\ [][NextCli]_vars
InitNote == rev = "note" /\ InitCommon
SpecNote == InitNote /\ [][NextNote]_vars
InitApp == rev = "app" /\ InitCommon
SpecApp == InitApp /\ [][NextApp]_vars

\* The requests of the web interface served on concurrent threads (app.run
\* serves every request on a thread of its own), with the start of each run
\* they begin: the run's thread, its writer and its submissions.
NextRace ==
    \/ \E c \in T, t \in {"movies", "series", "anime"} : ApiStartCheck(c, t)
    \/ \E c \in T : ApiStartBody(c)
    \/ \E c \in T : ApiSyncCheck(c)
    \/ \E c \in T : ApiSyncBody(c)
    \/ ApiStop
    \/ \E c \in T : CtlStartWriter(c)
    \/ \E c \in T : CtlSubmit(c)
SpecRace == InitApp /\ [][NextRace]_vars

\* The scheduler lets every thread that can take a step take it in the end:
\* the request thread past its test, the control thread, every fetcher of the
\* pool and the writer.  Requests arrive or not.
LiveApp ==
    /\ \A c \in {1} :
          /\ WF_vars(ApiStartBody(c))
          /\ WF_vars(CtlStartWriter(c)) /\ WF_vars(CtlSubmit(c))
          /\ WF_vars(CtlShutdown(c)) /\ WF_vars(CtlJoin(c)) /\ WF_vars(CtlChain(c))
          /\ WF_vars(WriterProcess(c)) /\ WF_vars(WriterSentinel(c))
          /\ WF_vars(WriterTimeout(c))
    /\ \A c \in {1}, u \in URLS :
          /\ WF_vars(FetchBegin(c, u)) /\ WF_vars(FetchResolve(c, u))
          /\ WF_vars(FetchPut(c, u))
SpecAppLive == InitApp /\ [][NextApp]_vars /\ LiveApp

\* ----------------------- src/outdated scripts/reset_affected_shows.py
\* A row of shows after DELETE: the id is not given again (AUTOINCREMENT).
DeletedRow == [source_url |-> 0, title |-> 0]
Stored(sh) == {i \in 1..Len(sh) : sh[i] # DeletedRow}

\* reset_affected_shows, first commit: DELETE FROM shows for every affected
\* show; the seasons, episodes and servers go with it (ON DELETE CASCADE)
\* and the show_id of the progress rows that name it becomes NULL (ON DELETE
\* SET NULL, foreign keys are on).  The affected shows come from the
\* redflag file: ids of stored shows, each with its source URL.
ResetDelete ==
    /\ rev = "cli" /\ ~running /\ fn = NoFn
    /\ \E A \in (SUBSET Stored(shows)) \ {{}} :
         /\ shows' = [i \in 1..Len(shows) |-> IF i \in A THEN DeletedRow ELSE shows[i]]
         /\ trees' = [i \in 1..NUrls |-> IF i \in A THEN <<>> ELSE trees[i]]
         /\ progress' = [u \in URLS |->
                           IF progress[u].show_id \in A
                           THEN [progress[u] EXCEPT !.show_id = 0] ELSE progress[u]]
         /\ fn' = [name |-> "reset_affected_shows",
                   arg |-> {shows[i].source_url : i \in A},
                   done |-> FALSE, res |-> <<>>]
    /\ UNCHANGED <<rev, utype, runs, running, stop, stopped, worklist, marks, seqvars, appvars>>

\* reset_affected_shows, second commit: every affected URL is marked
\* pending, without show_id.
ResetMark ==
    /\ rev = "cli" /\ fn.name = "reset_affected_shows" /\ ~fn.done
    /\ progress' = [u \in URLS |->
                      IF u \in fn.arg THEN Rec("pending", 0, "Reset for re-scraping")
                      ELSE progress[u]]
    /\ fn' = [fn EXCEPT !.done = TRUE, !.res = <<"marked">>]
    /\ UNCHANGED <<rev, utype, shows, trees, runs, running, stop, stopped, worklist,
                   marks, seqvars, appvars>>

\* The script is interrupted (Ctrl-C, kill) between its two commits.
ResetInterrupt ==
    /\ rev = "cli" /\ fn.name = "reset_affected_shows" /\ ~fn.done
    /\ fn' = [fn EXCEPT !.done = TRUE, !.res = <<"interrupted">>]
    /\ UNCHANGED <<rev, utype, dbvars, runs, running, stop, stopped, worklist,
                   marks, seqvars, appvars>>

\* Runs of src/02_scraper_with_db.py and a reset of the shows they stored.
NextReset == NextCli \/ ResetDelete \/ ResetMark \/ ResetInterrupt
SpecReset == InitCli /\ [][NextReset]_vars

\* The database a finished run of src/app.py leaves: every URL of the input
\* files has its row, the completed ones with their show and its tree.
AfterRun(C) ==
    /\ shows = [i \in 1..Len(SetToSeq(C)) |-> ShowRow(SetToSeq(C)[i])]
    /\ trees = [i \in 1..NUrls |->
                  IF i <= Len(SetToSeq(C))
                  THEN [k \in 1..Parts(SetToSeq(C)[i]) |-> "full"] ELSE <<>>]
    /\ progress = [u \in URLS |->
                     IF u \in C THEN Rec("completed", ShowIdByUrl(shows, u), "null")
                     ELSE PendingRec]

\* The steps of the control thread, the fetchers and the writer of a run
\* that does not chain.
RunSteps(c) ==
    \/ CtlStartWriter(c) \/ CtlSubmit(c) \/ CtlShutdown(c) \/ CtlJoin(c)
    \/ \E u \in URLS : FetchBegin(c, u)
    \/ \E u \in URLS : FetchResolve(c, u)
    \/ \E u \in URLS : FetchPut(c, u)
    \/ WriterProcess(c) \/ WriterSentinel(c) \/ WriterTimeout(c)

\* POST /api/sync after one run of the scraper: the sync thread and the
\* pipeline it starts, with stop requests.
NextSync ==
    \/ ApiSyncCheck(1) \/ ApiSyncBody(1) \/ SyncThreadTask(1)
    \/ ApiStop
    \/ RunSteps(1)
InitSync == /\ rev = "app" /\ runs = MaxRuns - 1 /\ InitIdle /\ TypedUrls
            /\ \E C \in SUBSET URLS : AfterRun(C)
            /\ dbcall = NoCall
            /\ IdleEp /\ IdleProbes /\ IdleSeries /\ IdleFn
SpecSync == InitSync /\ [][NextSync]_vars

\* The pipeline of src/app.py with the two statements of api_stop as two
\* steps of the request thread: the control thread runs between them.
NextStop ==
    \/ \E t \in {"movies", "series", "anime"} : ApiStartCheck(1, t)
    \/ ApiStartBody(1)
    \/ ApiStopSet(NThreads) \/ ApiStopClear(NThreads)
    \/ RunSteps(1) \/ CtlChain(1)
SpecStop == InitApp /\ [][NextStop]_vars

\* Runs of src/app.py that are never stopped, over input files whose URLs
\* hold the word of their type or none of the words populate looks for.
UrlTypes == {f \in [URLS -> {"movies", "series", "anime", "none"}] :
               \A u \in URLS : f[u] \in {Kind(u), "none"}}
NextChain ==
    \/ \E t \in {"movies", "series", "anime"} : ApiStartCheck(1, t)
    \/ ApiStartBody(1)
    \/ RunSteps(1) \/ CtlChain(1)
InitChain == /\ rev = "app" /\ InitDb /\ runs = 0 /\ InitIdle
             /\ utype \in UrlTypes
             /\ dbcall = NoCall
             /\ IdleEp /\ IdleProbes /\ IdleSeries /\ IdleFn
SpecChain == InitChain /\ [][NextChain]_vars /\ LiveApp

\* The three revisions side by side.
Init == rev \in {"cli", "note", "app"} /\ InitCommon
Next == NextCli \/ NextNote \/ NextApp
Spec == Init /\ [][Next]_vars
\* One season listing resolved by the pool of process_episode workers.
InitEp == /\ rev \in {"app", "note", "cli"} /\ InitBase /\ dbcall = NoCall
          /\ IdleProbes /\ IdleSeries /\ IdleFn
          /\ seen = {} /\ elist = <<>>
          /\ pages \in 1..NPages
          /\ atext \in {t \in [Anchors -> AnchorTexts] :
                          \A a, b \in Anchors : AnchorKey(a) = AnchorKey(b) => t[a] = t[b]}
          /\ epc = [a \in Anchors |-> IF a \in FirstPage(pages) THEN "submitted"
                                                                ELSE "unlisted"]
          /\ eres = [a \in Anchors |-> "none"]
SpecEp == InitEp /\ [][NextEp]_vars

\* scrape_series applied to the season links of a show page.
InitSeries == /\ rev \in {"app", "cli"} /\ InitBase /\ dbcall = NoCall
              /\ IdleEp /\ IdleProbes /\ IdleFn
              /\ slinks \in UNION {[1..n -> SeasonLinks] : n \in 0..NLinks}
              /\ sseasons = <<>>
SpecSeries == InitSeries /\ [][NextSeries]_vars

\* get_episode_servers applied to one episode: hits are the indices the site
\* answers with an iframe.
InitProbes == /\ rev \in {"app", "cli"} /\ InitBase /\ dbcall = NoCall
              /\ IdleEp /\ IdleSeries /\ IdleFn
              /\ hits \in SUBSET ProbeIdx
              /\ ppc = [i \in ProbeIdx |-> "submitted"]
              /\ servers = <<>>
SpecProbes == InitProbes /\ [][NextProbes]_vars

\* extract_episode_number applied to a title and a number text.
InitParse == /\ rev = "app" /\ InitBase /\ dbcall = NoCall
             /\ IdleEp /\ IdleProbes /\ IdleSeries
             /\ \E title \in StringsUpTo(MaxTitle), text \in StringsUpTo(MaxText) :
                  fn = [name |-> "extract_episode_number", arg |-> <<title, text>>,
                        done |-> FALSE, res |-> <<>>]
SpecParse == InitParse /\ [][NextParse]_vars

\* The loader of one program applied to the two URL-list files.
InitLoad == /\ InitBase /\ dbcall = NoCall /\ IdleEp /\ IdleProbes /\ IdleSeries
            /\ \E l \in Loaders, files \in UrlFiles :
                 /\ rev = IF l = "app" THEN "app" ELSE "cli"
                 /\ fn = [name |-> "load", arg |-> [loader |-> l, files |-> files],
                          done |-> FALSE,
                          res |-> [idx |-> 1, urls |-> {}, raised |-> FALSE]]
SpecLoad == InitLoad /\ [][NextLoad]_vars

\* clean_title applied to a title.
InitTitle == /\ rev \in {"app", "cli"} /\ InitBase /\ dbcall = NoCall
             /\ IdleEp /\ IdleProbes /\ IdleSeries
             /\ \E t \in Titles :
                  fn = [name |-> "clean_title", arg |-> t, done |-> FALSE, res |-> <<>>]
SpecTitle == InitTitle /\ [][NextTitle]_vars

\* The Database methods called directly, on the table of each revision.
InitDbApi == rev \in {"cli", "note", "app"} /\ InitCommon
SpecDb == InitDbApi /\ [][NextDb]_vars

\* ------------------------- the server rows of one stored episode or movie
\* One episode (or movie) of a stored show and the server rows kept for it.
\* A resolution is the list of embed links found for it, numbered from one;
\* a row keeps the server number and the link.
Embeds == 1..MaxEmbeds
Resolutions == UNION {[1..n -> Embeds] : n \in 0..MaxServers}
ServerRows(r) == [i \in 1..Len(r) |-> [server_number |-> i, embed_url |-> r[i]]]

\* The row id of the stored season and of the stored episode (the first
\* rows of their tables).
StoredRowId == 1
\* cursor.lastrowid after an INSERT OR IGNORE that was ignored: sqlite keeps
\* the row id of the last insert that succeeded on the connection, 0 on a
\* connection that has inserted nothing yet.
LastRowIds == 0..MaxRowId
\* season_id / episode_id as the code finds it for a row that exists: the
\* SELECT runs only when lastrowid is 0.
FoundId(last) == IF last = 0 THEN StoredRowId ELSE last

\* insert_seasons_episodes_servers / insert_seasons_and_episodes on the
\* stored episode: with the right ids the rows are written, after the DELETE
\* in app.py and next to the old rows in the two older programs; with a
\* stale id the episode INSERT or the server INSERT goes to another parent
\* or raises on the foreign key, and the rows of this episode stay.
InsertEpisodeServers(r, last, rows, new) ==
    LET season_id == FoundId(last)
        episode_id == FoundId(last)
    IN IF season_id # StoredRowId \/ episode_id # StoredRowId THEN rows
       ELSE IF r = "app" THEN ServerRows(new)
       ELSE rows \o ServerRows(new)

\* insert_movie_servers: app.py keys the rows by the show id it was given;
\* the older programs go through season 1 / episode 1 of the show.
InsertMovieServers(r, last, rows, new) ==
    IF r = "app" THEN ServerRows(new)
    ELSE LET season_id == FoundId(last)
             episode_id == FoundId(last)
         IN IF season_id # StoredRowId \/ episode_id # StoredRowId THEN rows
            ELSE rows \o ServerRows(new)

\* The tree of a show is persisted: the first time the rows are new, later
\* the show is stored already.
PersistServers ==
    /\ fn.name = "insert_servers" /\ ~fn.done
    /\ LET a == fn.arg
           new == IF fn.res.calls = 0 THEN a.first ELSE a.latest
           rows == IF fn.res.calls = 0 THEN ServerRows(new)
                   ELSE IF a.parent = "movie"
                        THEN InsertMovieServers(rev, a.last, fn.res.rows, new)
                        ELSE InsertEpisodeServers(rev, a.last, fn.res.rows, new)
       IN fn' = [fn EXCEPT !.done = fn.res.calls = 1,
                           !.res = [rows |-> rows, calls |-> fn.res.calls + 1]]
    /\ UNCHANGED <<rev, utype, progress, shows, trees, runs, running, stop, stopped,
                   worklist, marks, seqvars, appvars>>
NextServers == PersistServers
InitServers == /\ InitBase /\ dbcall = NoCall /\ IdleEp /\ IdleProbes /\ IdleSeries
               /\ rev \in {"cli", "note", "app"}
               /\ \E parent \in {"episode", "movie"}, last \in LastRowIds,
                     first \in Resolutions, latest \in Resolutions :
                    fn = [name |-> "insert_servers",
                          arg |-> [parent |-> parent, last |-> last,
                                   first |-> first, latest |-> latest],
                          done |-> FALSE,
                          res |-> [rows |-> <<>>, calls |-> 0]]
SpecServers == InitServers /\ [][NextServers]_vars

\* ------------------------------------------------ src/batch_scraper.py main
\* The media table after add_urls: one row per URL of the two files, the
\* status left by an earlier run or 'pending' for a new row.
MediaStatuses == {"pending", "completed", "error"}
PendingMedia(status) == {u \in URLS : status[u] = "pending"}

\* get_pending_urls(limit): SELECT ... WHERE status = 'pending' LIMIT n has no
\* ORDER BY, so any n of the pending rows may come back (all of them when
\* there are fewer).
GetPendingUrls(status, limit) ==
    {B \in SUBSET PendingMedia(status) :
       Cardinality(B) = IF Cardinality(PendingMedia(status)) < limit
                        THEN Cardinality(PendingMedia(status)) ELSE limit}

\* save_media: the UPDATE sets status = 'completed'; an exception while the
\* rows are written rolls back and sets status = 'error'.
SaveMedia(status, u, saved) ==
    [status EXCEPT ![u] = IF saved THEN "completed" ELSE "error"]
MarkErrorKept(status, u) == status
MarkError(status, u) == [status EXCEPT ![u] = "error"]

\* What run_single and the save do for one URL: data that is saved, data
\* whose save raises, no data, an exception.
ScrapeOutcomes == {"saved", "savefails", "nodata", "raises"}
ScrapeUrl(status, u, outcome) ==
    IF outcome = "saved" THEN SaveMedia(status, u, TRUE)
    ELSE IF outcome = "savefails" THEN SaveMedia(status, u, FALSE)
    ELSE MarkError(status, u)

CountSubmit(n) == IF n < MaxSubmits THEN n + 1 ELSE n

\* main up to the loop: nothing pending, nothing to do.
BatchStart ==
    /\ fn.name = "batch_main" /\ fn.res.pc = "start"
    /\ fn' = IF PendingMedia(fn.res.status) = {}
             THEN [fn EXCEPT !.done = TRUE, !.res.pc = "end"]
             ELSE [fn EXCEPT !.res.pc = "read"]
    /\ UNCHANGED <<rev, utype, progress, shows, trees, runs, running, stop, stopped,
                   worklist, marks, seqvars, appvars>>

\* The head of the while loop: the flag is tested, the next batch is read
\* and every URL of it is submitted to the pool.
BatchRead ==
    /\ fn.name = "batch_main" /\ fn.res.pc = "read"
    /\ \/ /\ fn.res.shutdown
          /\ fn' = [fn EXCEPT !.res.pc = "exit"]
       \/ /\ ~fn.res.shutdown
          /\ \E B \in GetPendingUrls(fn.res.status, BatchLimit) :
               fn' = IF B = {} THEN [fn EXCEPT !.res.pc = "exit"]
                     ELSE [fn EXCEPT
                             !.res.pc = "wait", !.res.batch = B, !.res.futures = B,
                             !.res.seen = Cardinality(PendingMedia(fn.res.status)),
                             !.res.submitted = [u \in URLS |->
                                                  IF u \in B THEN CountSubmit(@[u]) ELSE @[u]]]
    /\ UNCHANGED <<rev, utype, progress, shows, trees, runs, running, stop, stopped,
                   worklist, marks, seqvars, appvars>>

\* A pool thread runs scrape_url for one submitted URL.
BatchWorker(u) ==
    /\ fn.name = "batch_main" /\ u \in fn.res.futures
    /\ \E outcome \in ScrapeOutcomes :
         fn' = [fn EXCEPT !.res.status = ScrapeUrl(@, u, outcome),
                          !.res.futures = @ \ {u}]
    /\ UNCHANGED <<rev, utype, progress, shows, trees, runs, running, stop, stopped,
                   worklist, marks, seqvars, appvars>>

\* as_completed has handed over every future of the batch.
BatchCollected ==
    /\ fn.name = "batch_main" /\ fn.res.pc = "wait" /\ fn.res.futures = {}
    /\ fn' = [fn EXCEPT !.res.pc = "read"]
    /\ UNCHANGED <<rev, utype, progress, shows, trees, runs, running, stop, stopped,
                   worklist, marks, seqvars, appvars>>

\* as_completed hands over a future while the flag is set: the for loop
\* breaks and the while loop ends.
BatchBreak ==
    /\ fn.name = "batch_main" /\ fn.res.pc = "wait" /\ fn.res.shutdown
    /\ fn.res.futures # fn.res.batch
    /\ fn' = [fn EXCEPT !.res.pc = "exit"]
    /\ UNCHANGED <<rev, utype, progress, shows, trees, runs, running, stop, stopped,
                   worklist, marks, seqvars, appvars>>

\* The with block ends: the pool waits for the futures still running.
BatchExit ==
    /\ fn.name = "batch_main" /\ fn.res.pc = "exit" /\ fn.res.futures = {}
    /\ fn' = [fn EXCEPT !.done = TRUE, !.res.pc = "end"]
    /\ UNCHANGED <<rev, utype, progress, shows, trees, runs, running, stop, stopped,
                   worklist, marks, seqvars, appvars>>

\* signal_handler: Ctrl-C sets shutdown_flag.
BatchSignal ==
    /\ fn.name = "batch_main" /\ ~fn.done /\ ~fn.res.shutdown
    /\ fn' = [fn EXCEPT !.res.shutdown = TRUE]
    /\ UNCHANGED <<rev, utype, progress, shows, trees, runs, running, stop, stopped,
                   worklist, marks, seqvars, appvars>>

BatchSteps == \/ BatchStart
              \/ BatchRead
              \/ \E u \in URLS : BatchWorker(u)
              \/ BatchCollected
              \/ BatchBreak
              \/ BatchExit
NextBatch == BatchSteps \/ BatchSignal
InitBatch == /\ rev = "cli" /\ InitBase /\ dbcall = NoCall
             /\ IdleEp /\ IdleProbes /\ IdleSeries
             /\ \E status \in [URLS -> MediaStatuses] :
                  fn = [name |-> "batch_main", arg |-> status, done |-> FALSE,
                        res |-> [pc |-> "start", status |-> status, batch |-> {},
                                 futures |-> {}, seen |-> 0, shutdown |-> FALSE,
                                 submitted |-> [u \in URLS |-> 0]]]
\* The main thread and the pool threads keep running.
SpecBatch == InitBatch /\ [][NextBatch]_vars /\ WF_vars(BatchSteps)

\* ------------------------------ src/app-deep-note.py run_test_script_task
\* The test pipeline: at most nine URLs are selected, so urls_per_worker is
\* 1 and every selected URL gets a fetcher thread of its own; one writer
\* thread takes the fetched shows from fetch_queue.  The queue holds URLs
\* and the sentinel None; unfinished counts the puts not yet answered by
\* task_done (what fetch_queue.join waits for).
NoneSentinel == 0
TestIdle == [pc |-> "start", fetch |-> [u \in URLS |-> "none"], queue |-> <<>>,
             unfinished |-> 0, writer |-> "none", written |-> {}, stop |-> FALSE]

\* The threads are started; nothing selected, the task returns.
TestStart ==
    /\ fn.name = "run_test_script_task" /\ fn.res.pc = "start"
    /\ fn' = IF fn.arg = {} THEN [fn EXCEPT !.done = TRUE, !.res.pc = "end"]
             ELSE [fn EXCEPT !.res.pc = "join_fetchers", !.res.writer = "running",
                             !.res.fetch = [u \in URLS |->
                                              IF u \in fn.arg THEN "ready" ELSE "none"]]
    /\ UNCHANGED <<rev, utype, progress, shows, trees, runs, running, stop, stopped,
                   worklist, marks, seqvars, appvars>>

\* fetcher_worker: the stop test, then run_single is called.
TestFetchBegin(u) ==
    /\ fn.name = "run_test_script_task" /\ fn.res.fetch[u] = "ready"
    /\ fn' = [fn EXCEPT !.res.fetch[u] = IF fn.res.stop THEN "over" ELSE "fetching"]
    /\ UNCHANGED <<rev, utype, progress, shows, trees, runs, running, stop, stopped,
                   worklist, marks, seqvars, appvars>>

\* fetcher_worker: run_single is back; a result is put on the queue, no
\* result and an exception are counted as failed.
TestFetchEnd(u) ==
    /\ fn.name = "run_test_script_task" /\ fn.res.fetch[u] = "fetching"
    /\ \E result \in BOOLEAN :
         fn' = IF result
               THEN [fn EXCEPT !.res.fetch[u] = "over",
                               !.res.queue = Append(@, u),
                               !.res.unfinished = @ + 1]
               ELSE [fn EXCEPT !.res.fetch[u] = "over"]
    /\ UNCHANGED <<rev, utype, progress, shows, trees, runs, running, stop, stopped,
                   worklist, marks, seqvars, appvars>>

\* writer_worker: get returns an item; None ends the loop, a show is
\* written (or the write fails) and task_done is called.
TestWriterGet ==
    /\ fn.name = "run_test_script_task" /\ fn.res.writer = "running"
    /\ fn.res.queue # <<>>
    /\ fn' = IF Head(fn.res.queue) = NoneSentinel
             THEN [fn EXCEPT !.res.writer = "exited", !.res.queue = Tail(@)]
             ELSE [fn EXCEPT !.res.queue = Tail(@),
                             !.res.written = @ \cup {Head(fn.res.queue)},
                             !.res.unfinished = @ - 1]
    /\ UNCHANGED <<rev, utype, progress, shows, trees, runs, running, stop, stopped,
                   worklist, marks, seqvars, appvars>>

\* writer_worker: get(timeout=2) raises Empty and the queue is empty: break.
TestWriterTimeout ==
    /\ fn.name = "run_test_script_task" /\ fn.res.writer = "running"
    /\ fn.res.queue = <<>>
    /\ fn' = [fn EXCEPT !.res.writer = "exited"]
    /\ UNCHANGED <<rev, utype, progress, shows, trees, runs, running, stop, stopped,
                   worklist, marks, seqvars, appvars>>

\* The task has joined every fetcher thread.
TestJoinFetchers ==
    /\ fn.name = "run_test_script_task" /\ fn.res.pc = "join_fetchers"
    /\ \A u \in URLS : fn.res.fetch[u] \in {"none", "over"}
    /\ fn' = [fn EXCEPT !.res.pc = "join_queue"]
    /\ UNCHANGED <<rev, utype, progress, shows, trees, runs, running, stop, stopped,
                   worklist, marks, seqvars, appvars>>

\* fetch_queue.join() returns, None is put for the writer.
TestJoinQueue ==
    /\ fn.name = "run_test_script_task" /\ fn.res.pc = "join_queue"
    /\ fn.res.unfinished = 0
    /\ fn' = [fn EXCEPT !.res.pc = "join_writer",
                        !.res.queue = Append(@, NoneSentinel),
                        !.res.unfinished = @ + 1]
    /\ UNCHANGED <<rev, utype, progress, shows, trees, runs, running, stop, stopped,
                   worklist, marks, seqvars, appvars>>

\* writer_thread.join() returns and the task ends.
TestJoinWriter ==
    /\ fn.name = "run_test_script_task" /\ fn.res.pc = "join_writer"
    /\ fn.res.writer = "exited"
    /\ fn' = [fn EXCEPT !.done = TRUE, !.res.pc = "end"]
    /\ UNCHANGED <<rev, utype, progress, shows, trees, runs, running, stop, stopped,
                   worklist, marks, seqvars, appvars>>

\* /api/stop while the test runs: stop_scraper is set.
TestStop ==
    /\ fn.name = "run_test_script_task" /\ ~fn.done /\ ~fn.res.stop
    /\ fn.res.pc # "start"
    /\ fn' = [fn EXCEPT !.res.stop = TRUE]
    /\ UNCHANGED <<rev, utype, progress, shows, trees, runs, running, stop, stopped,
                   worklist, marks, seqvars, appvars>>

TestThreads == \/ TestStart
               \/ \E u \in URLS : TestFetchBegin(u)
               \/ \E u \in URLS : TestFetchEnd(u)
               \/ TestWriterGet
               \/ TestWriterTimeout
               \/ TestJoinFetchers
               \/ TestJoinQueue
               \/ TestJoinWriter
NextTest == TestThreads \/ TestStop
InitTest == /\ rev = "note" /\ InitBase /\ dbcall = NoCall
            /\ IdleEp /\ IdleProbes /\ IdleSeries
            /\ \E selected_urls \in SUBSET URLS :
                 fn = [name |-> "run_test_script_task", arg |-> selected_urls,
                       done |-> FALSE, res |-> TestIdle]
\* Every thread that can take a step takes one.
SpecTest == InitTest /\ [][NextTest]_vars /\ WF_vars(TestThreads)

\* ------------------------- src/old/scrape_single.py iterate_pages_collect
\* The listing pages of a season: page URLs 1..NListing, NoNext for a page
\* without a next link.  The site is given by the next link of every page
\* (rel=next, else a.next) and by the pages fetch_html gets.
ListingPages == 1..NListing
NoNext == 0
Sites == [next : [ListingPages -> ListingPages \cup {NoNext}],
          fetched : SUBSET ListingPages]

\* The loop test: while url and url not in seen_pages.
UnseenAlways(url, seen_pages) == url # NoNext
Unseen(url, seen_pages) == url # NoNext /\ url \notin seen_pages

CountVisit(n) == IF n < MaxVisits THEN n + 1 ELSE n

\* One pass of the while loop, or its end.
IteratePage ==
    /\ fn.name = "iterate_pages_collect" /\ ~fn.done
    /\ LET url == fn.res.url
           site == fn.arg.site
       IN fn' = IF ~Unseen(url, fn.res.seen_pages)
                THEN [fn EXCEPT !.done = TRUE]
                ELSE IF url \notin site.fetched
                THEN [fn EXCEPT !.done = TRUE,
                                !.res.seen_pages = @ \cup {url},
                                !.res.visits[url] = CountVisit(@)]
                ELSE [fn EXCEPT !.res.seen_pages = @ \cup {url},
                                !.res.visits[url] = CountVisit(@),
                                !.res.all_eps = @ \cup {url},
                                !.res.url = site.next[url]]
    /\ UNCHANGED <<rev, utype, progress, shows, trees, runs, running, stop, stopped,
                   worklist, marks, seqvars, appvars>>
NextPages == IteratePage
InitPages == /\ rev = "cli" /\ InitBase /\ dbcall = NoCall
             /\ IdleEp /\ IdleProbes /\ IdleSeries
             /\ \E start_url \in ListingPages, site \in Sites :
                  fn = [name |-> "iterate_pages_collect",
                        arg |-> [start_url |-> start_url, site |-> site],
                        done |-> FALSE,
                        res |-> [url |-> start_url, seen_pages |-> {},
                                 all_eps |-> {},
                                 visits |-> [p \in ListingPages |-> 0]]]
SpecPages == InitPages /\ [][NextPages]_vars /\ WF_vars(NextPages)

\* ================================================================== claims
Completed(u) == progress[u].status = "completed"

\* A progress record as an attempt leaves it: completed and linked to the
\* stored show of the URL, or failed with an error text.
Settled(u, p, sh) ==
    \/ /\ p[u].status = "completed"
       /\ p[u].show_id \in 1..Len(sh)
       /\ sh[p[u].show_id].source_url = u
    \/ /\ p[u].status = "failed" /\ p[u].error # "null"

\* mark_progress was called for the URL in this step.
Marked(u) == \/ marks'[u] = marks[u] + 1
             \/ \E c \in T : wmarks'[c][u] = wmarks[c][u] + 1

\* The attempts of the worklist are over: the sequential loops have moved
\* past the URL, the pipeline has ended its run.
AttemptOver(u) ==
    /\ u \in worklist
    /\ IF rev = "app"
       THEN runs > 0 /\ ~running /\ \A c \in T : req[c] = "idle" /\ ctl[c] = "idle"
       ELSE /\ \E i \in 1..(fileIdx - 1) : u \in FileUrls(JsonFiles[i])
            /\ cur.url # u /\ \A i \in 1..Len(work) : work[i] # u

MarkCount(u) == IF rev = "app" THEN wmarks[1][u] ELSE marks[u]

\* C1 as amended: for every URL taken from the worklist of a run that is not
\* stopped, the attempt ends with exactly one mark of its progress record,
\* which leaves it completed with the stored show's id or failed with an
\* error text (whatever the status before the attempt, pending or failed);
\* no attempt marks twice and none leaves the URL unmarked.
C1_OneMarkPerAttempt ==
    [][\A u \in URLS :
          /\ Marked(u) => Settled(u, progress', shows')
          /\ MarkCount(u)' <= 1
          /\ (~stopped' /\ AttemptOver(u)') => MarkCount(u)' = 1]_vars

\* C1 as stated: the one status change starts from pending.
C1_FromPending ==
    [][\A u \in URLS :
          /\ Marked(u) => (progress[u].status = "pending" /\ Settled(u, progress', shows'))
          /\ MarkCount(u)' <= 1
          /\ (~stopped' /\ AttemptOver(u)') => MarkCount(u)' = 1]_vars

\* C1 witness: a run that was not stopped is past a URL of its worklist, marked
\* once and left completed with its show, while another was left failed.
C1_Witness ==
    /\ ~stopped
    /\ \E u, v \in worklist :
         /\ AttemptOver(u) /\ MarkCount(u) = 1 /\ Completed(u) /\ Settled(u, progress, shows)
         /\ AttemptOver(v) /\ MarkCount(v) = 1 /\ progress[v].status = "failed"

\* A URL is handed to a scrape in this step: it enters a worklist, becomes
\* the URL of the sequential loop, or its fetcher task is submitted.
EntersWork(u) ==
    \/ u \in worklist' /\ u \notin worklist
    \/ cur'.url = u /\ cur.url # u
    \/ \E c \in T : fpc'[c][u] = "start" /\ fpc[c][u] # "start"

\* C2: once a URL is marked completed, no later computation of the pending
\* set contains it and no resumed run scrapes it again.
C2_CompletedNeverPending ==
    [][\A u \in URLS : Completed(u) => ~EntersWork(u)]_vars

\* C2 witness: a second run works on a pending set computed while a URL of
\* the same input file was completed; the set leaves that URL out.
C2_Witness ==
    /\ runs = 2 /\ running
    /\ \E u, v \in URLS :
         /\ Kind(u) = Kind(v) /\ Completed(u) /\ u \notin worklist
         /\ v \in worklist /\ MarkCount(v) = 0

\* C3 as stated: insert_show for a source URL that already has a stored show
\* adds no row and returns the id of the stored show, so that the URL is
\* marked completed with it.
C3_InsertShowReturnsExisting ==
    [][/\ (CliInsertShowStep \/ NoteInsertShowStep) /\ ShowIdByUrl(shows, cur.url) # 0
          => /\ shows' = shows
             /\ cur'.show_id = ShowIdByUrl(shows, cur.url)
       /\ \A c \in T :
            (WriterProcess(c) /\ Head(queue).ok /\ ShowIdByUrl(shows, Head(queue).url) # 0)
            => shows' = shows]_vars

\* C4 as stated: no URL is marked completed on the basis of a resolution
\* that the stop signal cut short: the tree persisted for a completed URL
\* has no part cut by a stop.
C4_NoCompletedFromCut ==
    \A u \in URLS :
       (Completed(u) /\ progress[u].show_id \in 1..NUrls)
       => ~TreeCut(trees[progress[u].show_id])
\* The run of a control thread is over.
RunOver(c) == runs > 0 /\ req[c] = "idle" /\ ctl[c] \in {"idle", "dead"}

\* C5: every result a fetcher put on the data queue is written and its URL
\* marked by the writer before the run ends, stop request or not: when the
\* run is over none of its items is left in the queue and the URL of each
\* was marked once and is completed with its show or failed.
C5_EnqueuedAreWritten ==
    rev = "app" =>
      \A c \in T :
        RunOver(c) =>
          /\ \A i \in DOMAIN queue : queue[i].by # c
          /\ \A u \in enq[c] : wmarks[c][u] = 1 /\ Settled(u, progress, shows)

\* C5 witness: a run is over whose item was in the queue when the stop was
\* accepted, and the URL of that item is completed with its show.
C5_Witness ==
    /\ rev = "app" /\ stopped /\ RunOver(1) /\ ~running
    /\ \E u \in atstop \cap enq[1] : wmarks[1][u] = 1 /\ Completed(u)

FetcherActive(c, u) == fpc[c][u] \in {"start", "run", "final"}

C7_PendingIsNotCompleted ==
    [][/\ \A c \in T :
            ApiStartBody(c) =>
              worklist' = {u \in URLS : Kind(u) = req[c] /\ progress'[u].status # "completed"}
       /\ (CliNextFile /\ fileIdx <= Len(JsonFiles)) =>
              worklist' = {u \in FileUrls(JsonFiles[fileIdx]) : ~Completed(u)}
       /\ NoteBegin => worklist' = {u \in URLS : ~Completed(u)}]_vars

\* C9: enumerating the URL list again leaves every existing progress record
\* as it is: status, show linkage and error are unchanged (the table holds
\* one row per URL).
C9_EnumerationKeepsRecords ==
    [][(CliNextFile \/ NoteBegin \/ \E c \in T : ApiStartBody(c) \/ CtlChain(c))
       => \A u \in URLS : progress[u] # NoRec => progress'[u] = progress[u]]_vars

\* C9 witness: a second run has enumerated the list again over a completed
\* and a failed record.
C9_Witness ==
    /\ rev = "note" /\ runs = 2 /\ pc = "file" /\ fileIdx = 1
    /\ \E u, v \in URLS :
         /\ Completed(u) /\ progress[u].show_id > 0
         /\ progress[v].status = "failed" /\ progress[v].error # "null"
\* C8 as stated: mark_progress is an idempotent upsert: after the call the
\* record of the URL holds the given status, show id and error, whether or
\* not a record existed before, and repeating the call changes nothing.
C8_MarkIsUpsert ==
    [][dbcall'.op = "mark" =>
         /\ progress'[dbcall'.url] = Rec(dbcall'.status, dbcall'.show_id, dbcall'.error)
         /\ dbcall' = dbcall => progress' = progress]_vars

\* No two episodes of the returned list come from anchors of one key.
DistinctKeys ==
    \A i, j \in 1..Len(EpisodeList) :
       i # j => EpKey(rev, EpisodeList[i], atext[EpisodeList[i]])
                  # EpKey(rev, EpisodeList[j], atext[EpisodeList[j]])

\* No two episodes of the returned list carry the same episode number.
DistinctNumbers ==
    \A i, j \in 1..Len(EpisodeList) :
       i # j => EpisodeNumber(EpisodeList[i]) # EpisodeNumber(EpisodeList[j])

\* C10 as stated: when the workers of a season listing that was not stopped
\* are all done, the list returned holds no two episodes for a key that two
\* anchors share, under every interleaving of the workers.
C10_OneEpisodePerKey == (SeasonDone /\ ~stopped) => DistinctKeys

\* C11 as stated: the list returned for a season is the same for every
\* completion order of the tasks, that is, it is the list returned when the
\* tasks complete in listing order: the resolved episodes sorted by their
\* normalized number.  (Stated for lists whose episodes have distinct keys
\* and distinct numbers, so that the duplicates of C10 and C12 play no part.)
C11_OrderIndependent ==
    (rev = "app" /\ SeasonDone /\ ~stopped /\ DistinctKeys /\ DistinctNumbers)
    => EpisodeList = SortByKey(InListingOrder(Episodes), AppSortKeys)

\* C12 as stated: no two episodes of the list returned for a season carry
\* the same episode number.  (Stated for lists whose episodes have distinct
\* keys, so that the duplicates of C10 play no part.)
C12_UniqueEpisodeNumbers ==
    (SeasonDone /\ ~stopped /\ DistinctKeys) => DistinctNumbers

\* C13 as stated: within one resolved show no two seasons carry the same
\* season number, also when two season links parse to the same number or both
\* fall back to the default number 1.
C13_UniqueSeasonNumbers ==
    \A i, j \in 1..Len(sseasons) :
       i # j => sseasons[i].season_number # sseasons[j].season_number

\* The persisted tree of a show has no episode with a server.
EmptyShell(t) == ~\E i \in 1..Len(t) : HasServers(t[i])

\* C14 as stated: a series or anime resolution without episodes, or without
\* any server on any episode, is never persisted as a show: in the two web
\* revisions no stored series or anime has a persisted tree without a server.
\* (Trees cut by a stop are left to C4.)
C14_NoEmptyShell ==
    rev \in {"app", "note"} =>
      \A sid \in 1..Len(shows) :
         (Kind(shows[sid].source_url) # "movies" /\ trees[sid] # <<>>
             /\ ~TreeCut(trees[sid]))
         => ~EmptyShell(trees[sid])

\* C15 as stated: a failure while resolving or persisting one URL marks that
\* URL failed with a reason and touches no other record: a step that marks a
\* URL changes the record of no other URL, a URL is marked completed only
\* when its tree was persisted, and in a run that is not stopped every URL of
\* the worklist is marked.
C15_FailureIsolated ==
    [][\A u \in URLS :
          /\ Marked(u) => \A v \in URLS \ {u} : progress'[v] = progress[v]
          /\ (Marked(u) /\ progress'[u].status = "completed")
             => /\ progress'[u].show_id \in 1..Len(shows')
                /\ trees'[progress'[u].show_id] # <<>>
          /\ (Marked(u) /\ progress'[u].status = "failed")
             => progress'[u].error # "null"
          /\ (~stopped' /\ AttemptOver(u)') => MarkCount(u)' = 1]_vars

\* The episodes of the returned list, as a set of anchors.
Returned == {EpisodeList[i] : i \in 1..Len(EpisodeList)}

\* C16 as stated: an exception while one anchor is processed removes only
\* that anchor's episode.  When the workers of a listing that was not stopped
\* are all done, every anchor of the fetched page was processed; an anchor
\* without an episode raised itself, has no episode number, or repeats the key
\* of another anchor; and every episode resolved is in the returned list
\* (but for the number 999 that src/02_scraper_with_db.py and
\* src/app-deep-note.py filter out).
C16_ErrorIsolated ==
    (SeasonDone /\ ~stopped) =>
      \A a \in FirstPage(pages) :
         /\ eres[a] \in {"episode", "error", "None"}
         /\ eres[a] = "None"
            => \/ rev = "app" /\ AppEpNum(atext[a]) = <<>>
               \/ \E b \in FirstPage(pages) \ {a} :
                     EpKey(rev, b, atext[b]) = EpKey(rev, a, atext[a])
         /\ eres[a] = "episode"
            => a \in Returned \/ (rev # "app" /\ CliNums[a] = Whole(NoNumber))

\* C16 witness: one anchor raised, and a later anchor of another key is in the
\* returned list.
C16_Witness ==
    /\ SeasonDone /\ ~stopped
    /\ \E a, b \in FirstPage(pages) :
         /\ a < b /\ eres[a] = "error" /\ b \in Returned
         /\ EpKey(rev, a, atext[a]) # EpKey(rev, b, atext[b])

\* C17 as stated: when the listing of a season spans several pages, the
\* resolver visits every page: once the workers of a listing that was not
\* stopped are all done, the anchors of every page have been processed, never
\* only those of the first page.
C17_EveryPageVisited ==
    (SeasonDone /\ ~stopped) => \A a \in Anchors : epc[a] = "done"

RECURSIVE Ascending(_)
\* The members of a set of indices in ascending order.
Ascending(S) ==
    IF S = {} THEN <<>>
    ELSE LET m == CHOOSE x \in S : \A y \in S : x <= y
         IN <<m>> \o Ascending(S \ {m})

\* C18 as stated: server discovery returns exactly one entry per probe index
\* that gave a usable iframe, in ascending index order, whatever the order in
\* which the probes complete.  (Stated for a discovery that was not stopped.)
C18_ServersSorted ==
    (ProbesDone /\ ~stopped) =>
       /\ ServerList = Ascending(Usable)
       /\ Usable \subseteq hits

\* C18 witness: three probes gave an iframe and were taken out of index
\* order, a fourth gave none.
C18_Witness ==
    /\ ProbesDone /\ ~stopped
    /\ Len(servers) >= 3 /\ Usable # ProbeIdx
    /\ \E i \in 1..(Len(servers) - 1) : servers[i] > servers[i + 1]

\* C19 as stated: a URL matching the movie pattern never creates season or
\* episode records: no stored movie has a row in the seasons table; and a URL
\* that does not match is resolved through the season resolver: its persisted
\* tree holds one part per season.
C19_MoviesHaveNoSeasons ==
    \A sid \in 1..Len(shows) :
       LET u == shows[sid].source_url
       IN /\ Kind(u) = "movies" => SeasonRows(rev, u, trees[sid]) = 0
          /\ (Kind(u) # "movies" /\ trees[sid] # <<>>)
             => SeasonRows(rev, u, trees[sid]) = NSeasons

\* The text of an anchor holds a special marker, an episode-0 marker or a
\* number.
Numbered(t) == t.sp \/ t.num # <<>>

\* C20 as stated: an anchor is left out of the episode list only when no
\* number can be determined for it (or it repeats a key): when the workers of
\* a listing that was not stopped are all done, every anchor of the fetched
\* page that did not raise, shares its key with no other anchor and carries a
\* special marker, an episode-0 marker or a number is in the returned list.
C20_NumberedAnchorsKept ==
    (SeasonDone /\ ~stopped) =>
      \A a \in FirstPage(pages) :
         (/\ eres[a] # "error"
          /\ Numbered(atext[a])
          /\ \A b \in FirstPage(pages) \ {a} :
                EpKey(rev, b, atext[b]) # EpKey(rev, a, atext[a]))
         => a \in Returned

\* The text of an anchor carries a merged-range marker ("N and M").
Merged(t) == t.ep /\ Len(t.num) >= 2

\* C21 as stated: an anchor with a merged-range marker yields exactly one
\* episode whose episode number is the first number N (the other numbers are
\* kept apart from it): every returned episode of src/app.py that comes from
\* such an anchor carries the number N alone.
C21_MergedTakesFirst ==
    (rev = "app" /\ SeasonDone /\ ~stopped) =>
      \A a \in Returned :
         Merged(atext[a]) => EpisodeNumber(a) = <<atext[a].num[1]>>

\* The anchors of the fetched page that carry a given text.
WithText(t) == {a \in FirstPage(pages) : atext[a] = t}

\* C22 as stated: a fractional episode number is preserved as given, never
\* rounded or floored: when a listing of src/app.py or src/app-deep-note.py
\* that was not stopped holds "Episode 1" and "Episode 1.5" and none of their
\* anchors raised, the returned list holds an episode for each, the second
\* with the number 1.5.
C22_FractionKept ==
    LET one  == WithText(Text(TRUE, FALSE, <<Whole(1)>>))
        half == WithText(Text(TRUE, FALSE, <<Whole(1) + 1>>))
    IN (/\ rev \in {"app", "note"} /\ SeasonDone /\ ~stopped
        /\ one # {} /\ half # {}
        /\ \A a \in one \cup half : eres[a] # "error")
       => /\ \E a \in one : a \in Returned /\ EpisodeNumber(a) = <<Whole(1)>>
          /\ \E b \in half : b \in Returned /\ EpisodeNumber(b) = <<Whole(1) + 1>>

\* The first number of a title and text read one after the other.
FirstNumber(s) ==
    LET i == FirstIdx(s, LAMBDA t, j : IsNum(t[j]))
    IN IF i = 0 THEN <<>> ELSE <<s[i].v>>

\* C23 as stated: extract_episode_number applies its rules in one fixed
\* priority: a merged or a special marker in the title or the text gives None
\* even beside digits; every other input that holds a number gives a number:
\* the first fractional number, else the number after the episode word, else
\* the integer part of the first number.
C23_FixedPriority ==
    Applied("extract_episode_number") =>
      LET title == fn.arg[1]
          text == fn.arg[2]
          marker == \/ SearchMerged(title) \/ SearchMerged(text)
                    \/ SearchSpecial(title) \/ SearchSpecial(text)
          frac == OrMatch(SearchDecimal(title), SearchDecimal(text))
          after == OrMatch(SearchEpisode(title), SearchEpisode(text))
          first == FirstNumber(title \o text)
      IN /\ marker => fn.res = <<>>
         /\ (~marker /\ first # <<>>)
            => fn.res = IF frac # <<>> THEN frac
                        ELSE IF after # <<>> THEN after
                        ELSE <<Floor(first[1])>>

C25_LoaderDegrades ==
    Applied("load") =>
      /\ ~fn.res.raised
      /\ fn.res.urls = UNION {fn.arg.files[f].urls :
                                 f \in {g \in FileNames : fn.arg.files[g].state = "ok"}}

\* C26 as stated: clean_title is idempotent: for every title x,
\* clean_title(clean_title(x)) equals clean_title(x).
C26_CleanTitleIdempotent ==
    Applied("clean_title") => fn.res[2] = fn.res[1]
\* C27: at most one scraper run is active at any time: of the start and
\* sync requests that arrive while a run is active, or together, at most one
\* starts a run.
ActiveRuns == {c \in T : ctl[c] \notin {"idle", "dead"}}
C27_OneRunAtATime == rev = "app" => Cardinality(ActiveRuns) <= 1

\* C28: every started run eventually ends: whenever scraper_running is
\* true it becomes false again, under every interleaving of the threads with
\* stop requests.
C28_RunEnds == running ~> ~running

\* C29: the Show row, its complete tree and the completed mark become
\* durable together: once the program has stopped, interrupted or not, the
\* committed database holds no stored show whose source URL is not marked
\* completed, and no completed URL whose tree is not stored whole.
Committed == ~running /\ nwriters = 0
StoredWhole(u) ==
    /\ progress[u].show_id \in 1..Len(shows)
    /\ Len(trees[progress[u].show_id]) = Parts(u)
C29_DurableTogether ==
    Committed =>
        /\ \A i \in 1..Len(shows) : Completed(shows[i].source_url)
        /\ \A u \in URLS : Completed(u) => StoredWhole(u)

\* C30: whenever the status of a URL is completed, its show_id is set and
\* identifies a stored show whose source URL is that URL.
C30_CompletedLinksShow ==
    \A u \in URLS : Completed(u) =>
        /\ progress[u].show_id \in 1..Len(shows)
        /\ shows[progress[u].show_id].source_url = u

\* C31 as stated: once a URL is marked completed, no step of a start, an
\* auto-chain, a sync or a stop changes its status to failed or pending.
C31_CompletedStays ==
    [][\A u \in URLS : Completed(u) => progress'[u].status = "completed"]_vars

\* C32 as stated: after a stop request has been accepted, no further scrape
\* type is taken from the auto-chain queue and no run for another type is
\* started until a new start request is made: while the stop event is set
\* the current scrape type changes only to none.
C32_NoChainAfterStop ==
    [][stop => (ctype' = ctype \/ ctype' = "none" \/ ~stop')]_vars

\* C33 as stated: in a run that is started and never stopped, every URL
\* that is pending when the run starts has left the pending status when the
\* auto-chain has finished, whatever its URL looks like.
C33_NoPendingLeft ==
    [][(running /\ ~running') => \A u \in URLS : progress'[u].status # "pending"]_vars

\* C34: a run started for one of the types movies, series, anime and not
\* stopped processes each of the three types exactly once, in the chained
\* order set at start, and then becomes idle with an empty auto-chain queue:
\* the start sets the type asked for and queues the two other types, the
\* type changes only by taking the head of the queue, the run ends only on
\* an empty queue, and it does end.
ScrapeTypes == {"movies", "series", "anime"}
ChainedInOrder ==
    /\ (~running /\ running') =>
          (Len(chain') = 2 /\ {ctype', chain'[1], chain'[2]} = ScrapeTypes)
    /\ (running /\ running' /\ ctype' # ctype) =>
          (chain # <<>> /\ ctype' = Head(chain) /\ chain' = Tail(chain))
    /\ (running /\ running' /\ ctype' = ctype) => chain' = chain
    /\ (running /\ ~running') =>
          (chain = <<>> /\ chain' = <<>> /\ ctype' = "none")
C35_OwnSeasonUrl ==
    \A i \in 1..Len(sseasons) :
       sseasons[i].link # 0 => sseasons[i].resolved_from = sseasons[i].link

\* C36: after the tree of a stored show is persisted again, the episode (or
\* movie) holds exactly the server rows of the latest resolution.
C36_LatestServersOnly ==
    Applied("insert_servers") => fn.res.rows = ServerRows(fn.arg.latest)

\* C37: the main loop of batch_scraper ends; when the next batch is read
\* every URL of the batch before has left 'pending', fewer URLs are pending
\* than at the read before, and no URL is submitted twice in one run.
BatchDrained ==
    (fn.name = "batch_main" /\ fn.res.pc = "read" /\ fn.res.batch # {}) =>
       /\ \A u \in fn.res.batch : fn.res.status[u] # "pending"
       /\ Cardinality(PendingMedia(fn.res.status)) < fn.res.seen
SubmittedOnce == fn.name = "batch_main" => \A u \in URLS : fn.res.submitted[u] <= 1
C37_BatchLoopEnds ==
    /\ [](BatchDrained /\ SubmittedOnce)
    /\ <>Applied("batch_main")
C37_Witness ==
    /\ Applied("batch_main") /\ ~fn.res.shutdown
    /\ \A u \in URLS : /\ fn.arg[u] = "pending"
                       /\ fn.res.submitted[u] = 1
                       /\ fn.res.status[u] # "pending"
    /\ \E u \in URLS : fn.res.status[u] = "error"
    /\ \E u \in URLS : fn.res.status[u] = "completed"

\* C38: in the test pipeline the writer does not exit while a fetcher can
\* still put a show on the queue, every show put on the queue is written,
\* and fetch_queue.join returns: the task ends.
FetcherLeft == \E u \in URLS : fn.res.fetch[u] \in {"ready", "fetching"}
WriterOutlivesFetchers ==
    fn.name = "run_test_script_task" =>
       /\ (fn.res.writer = "exited" => ~FetcherLeft)
       /\ (fn.res.writer = "exited" =>
             \A i \in 1..Len(fn.res.queue) : fn.res.queue[i] = NoneSentinel)
VisitedOnce ==
    fn.name = "iterate_pages_collect" =>
       \A p \in ListingPages : fn.res.visits[p] <= 1
C39_PagesOnceAndEnds ==
    /\ []VisitedOnce
    /\ <>Applied("iterate_pages_collect")
C39_Witness ==
    /\ Applied("iterate_pages_collect")
    /\ fn.res.all_eps = ListingPages
    /\ fn.res.url \in fn.res.seen_pages
    /\ fn.res.url # fn.arg.start_url
====
